---- MODULE Spec2Model ----
(***************************************************************************)
(* A model of the weather-map application: the page (HomePage), the map    *)
(* view (SVGMap with ZoomControls), the search box (SearchBox), the        *)
(* weather client (WeatherAPI) and the geometry helpers of lib/map-utils.  *)
(*                                                                         *)
(* Numbers.  Geographic coordinates and pixels are integers.  Values the   *)
(* code computes with fractions are kept exact: a bound is held in tenths  *)
(* (the padding is one tenth of the extent), a projected coordinate is a   *)
(* fraction [num, den], and so is a zoom level.                             *)
(* Text constants of the user interface are written in ASCII; the comment  *)
(* beside each gives the text of the source.                               *)
(***************************************************************************)
EXTENDS Integers, Sequences, FiniteSets, TLC

VARIABLES
  \* HomePage (app/page.tsx); lastPress records what the user did last to
  \* the selection: "none", "select", "retry" or "clear"
  selectedRegion, weatherData, loading, error, searchLocation,
  regionFetches, lastPress,
  \* SearchBox
  query, results, isSearching, isLoadingWeather, showResults, searchError,
  searchTimeoutRef, timers, geoFetches, weatherFetches, mounted, sinceInput,
  lastTyped,
  \* SVGMap
  mapData, bounds, mapLoading, mapError, zoomLevel, panOffset, isDragging,
  dragStart, mapFetch, zoomEvents, dragFrom, lastReset,
  \* inputs and results of the geometry helpers
  geoBounds, geoCoords, geoPoint, geoPath, geoHit,
  \* loadCombinedMapData
  cityLoads, combinedLoad,
  \* a call of WeatherAPI
  apiCall,
  \* WeatherCard: its weatherData prop and what it renders
  cardProps, cardView,
  \* searchLocations: a geocoding response body and the list made of it
  filterData, filterList

pageVars == <<selectedRegion, weatherData, loading, error, searchLocation,
              regionFetches, lastPress>>
searchVars == <<query, results, isSearching, isLoadingWeather, showResults,
                searchError, searchTimeoutRef, timers, geoFetches,
                weatherFetches, mounted, sinceInput, lastTyped>>
mapVars == <<mapData, bounds, mapLoading, mapError, mapFetch>>
viewVars == <<zoomLevel, panOffset, isDragging, dragStart, zoomEvents,
              dragFrom, lastReset>>
geoVars == <<geoBounds, geoCoords, geoPoint, geoPath, geoHit>>
loadVars == <<cityLoads, combinedLoad>>
apiVars == <<apiCall>>
cardVars == <<cardProps, cardView>>
filterVars == <<filterData, filterList>>
vars == <<pageVars, searchVars, mapVars, viewVars, geoVars, loadVars, apiVars,
          cardVars, filterVars>>

-----------------------------------------------------------------------------
(* Values *)

\* null of a string-valued state
NULL == "null"
\* null of a record-valued state
NoValue == [null |-> TRUE]

\* The most weather fetches of region clicks in flight at once.
MaxPending == 2

-----------------------------------------------------------------------------
(* Numbers *)

\* Math.min and Math.max
MathMin(a, b) == IF a < b THEN a ELSE b
MathMax(a, b) == IF a > b THEN a ELSE b

\* A fraction num/den.  A zero den is the result of a division by zero.
Frac(n, d) == [num |-> n, den |-> d]
FracLt(p, q) == p.num * q.den < q.num * p.den
FracLe(p, q) == p.num * q.den <= q.num * p.den
FracEq(p, q) == p.num * q.den = q.num * p.den
FracOfInt(n) == Frac(n, 1)

Abs(n) == IF n < 0 THEN -n ELSE n
RECURSIVE Gcd(_, _)
Gcd(a, b) == IF b = 0 THEN a ELSE Gcd(b, a % b)

-----------------------------------------------------------------------------
(* lib/map-utils.ts: bounds and projection *)

\* The unit of a bound: a bound b of the code is held as b * Scale, so that
\* the padding, a tenth of the extent, stays an integer.
Scale == 10
\* calculateBounds' default padding, 0.1, in Scale-ths
DefaultPadding == 1
SvgWidth == 800
SvgHeight == 600
\* Infinity, the start of the min/max search: above every coordinate and
\* every bound of the model.
Infinity == 100000

RECURSIVE Flatten(_)
\* the members of a sequence of sequences, in order
Flatten(ss) == IF ss = <<>> THEN <<>> ELSE Head(ss) \o Flatten(Tail(ss))

\* The rings calculateBounds visits in one feature, in the order of its loops.
BoundsRingsEarlier(feature) ==
  IF feature.geometry.type = "MultiPolygon"
  THEN Flatten(feature.geometry.coordinates)
  ELSE <<>>

BoundsRings(feature) ==
  IF feature.geometry.type = "MultiPolygon"
  THEN Flatten(feature.geometry.coordinates)
  ELSE IF feature.geometry.type = "Polygon"
       THEN feature.geometry.coordinates
       ELSE <<>>

RECURSIVE BoundsCoords(_)
\* every coordinate calculateBounds visits, in order
BoundsCoords(features) ==
  IF features = <<>> THEN <<>>
  ELSE Flatten(BoundsRings(Head(features))) \o BoundsCoords(Tail(features))

RECURSIVE MinMax(_, _)
\* the four running extremes after the coordinates cs, from the extremes acc
MinMax(cs, acc) ==
  IF cs = <<>> THEN acc
  ELSE LET lng == Head(cs)[1]
           lat == Head(cs)[2]
       IN  MinMax(Tail(cs),
                  [minLat |-> MathMin(acc.minLat, lat),
                   maxLat |-> MathMax(acc.maxLat, lat),
                   minLng |-> MathMin(acc.minLng, lng),
                   maxLng |-> MathMax(acc.maxLng, lng)])

\* calculateBounds(geoData, padding), padding in Scale-ths; the bounds in
\* Scale-ths, width and height in pixels.  With no coordinate visited the
\* extremes stay at Infinity and -Infinity, both paddings are -Infinity and
\* the sums are Infinity and -Infinity again.
calculateBounds(geoData, padding) ==
  LET cs == BoundsCoords(geoData.features)
      e == MinMax(cs, [minLat |-> Infinity, maxLat |-> -Infinity,
                       minLng |-> Infinity, maxLng |-> -Infinity])
      latPadding == (e.maxLat - e.minLat) * padding
      lngPadding == (e.maxLng - e.minLng) * padding
  IN  IF cs = <<>>
      THEN [minLat |-> Infinity, maxLat |-> -Infinity,
            minLng |-> Infinity, maxLng |-> -Infinity,
            width  |-> SvgWidth,
            height |-> SvgHeight]
      ELSE [minLat |-> e.minLat * Scale - latPadding,
            maxLat |-> e.maxLat * Scale + latPadding,
            minLng |-> e.minLng * Scale - lngPadding,
            maxLng |-> e.maxLng * Scale + lngPadding,
            width  |-> SvgWidth,
            height |-> SvgHeight]

\* projectCoordinate without the flip of the Y axis
projectCoordinateNoFlip(coord, b) ==
  [x |-> Frac((coord.lng * Scale - b.minLng) * b.width, b.maxLng - b.minLng),
   y |-> Frac((coord.lat * Scale - b.minLat) * b.height, b.maxLat - b.minLat)]

\* projectCoordinate({lat, lng}, bounds): x and y as fractions
projectCoordinate(coord, b) ==
  [x |-> Frac((coord.lng * Scale - b.minLng) * b.width, b.maxLng - b.minLng),
   y |-> Frac(b.height * (b.maxLat - b.minLat)
                - (coord.lat * Scale - b.minLat) * b.height,
              b.maxLat - b.minLat)]

-----------------------------------------------------------------------------
(* lib/map-utils.ts: SVG paths *)

(* A string is a sequence of tokens <<kind, n, d>>: a word of the path      *)
(* syntax ("M", "L", "Z"), one space (" "), or a number as the template     *)
(* literal prints it ("#" with the value n/d in lowest terms, or one of     *)
(* NaN, Infinity, -Infinity after a division by zero).                      *)
Word(w) == <<w, 0, 0>>
Space == <<" ", 0, 0>>

\* `${x}` for a number x
NumberToString(f) ==
  IF f.den = 0
  THEN IF f.num = 0 THEN Word("NaN")
       ELSE IF f.num > 0 THEN Word("Infinity") ELSE Word("-Infinity")
  ELSE LET g == Gcd(Abs(f.num), Abs(f.den))
           sgn == IF f.den < 0 THEN -1 ELSE 1
       IN  <<"#", sgn * (f.num \div g), sgn * (f.den \div g)>>

RECURSIVE Join(_, _)
\* Array.prototype.join: the strings strs with sep between neighbours
Join(strs, sep) ==
  IF strs = <<>> THEN <<>>
  ELSE IF Len(strs) = 1 THEN Head(strs)
  ELSE Head(strs) \o sep \o Join(Tail(strs), sep)

\* `M ${x} ${y}` or `L ${x} ${y}`
PathCommand(letter, p) ==
  <<Word(letter), Space, NumberToString(p.x), Space, NumberToString(p.y)>>

\* A ring's subpath that draws every vertex with L: no M opens it.
RingToPathNoMove(ring, b) ==
  Join([i \in 1..Len(ring) |->
          PathCommand("L",
                      projectCoordinate([lat |-> ring[i][2], lng |-> ring[i][1]], b))]
       \o << <<Word("Z")>> >>, <<Space>>)

\* The body of the loop over rings: the ring's commands and the closing Z,
\* joined by spaces.
RingToPath(ring, b) ==
  Join([i \in 1..Len(ring) |->
          PathCommand(IF i = 1 THEN "M" ELSE "L",
                      projectCoordinate([lat |-> ring[i][2], lng |-> ring[i][1]], b))]
       \o << <<Word("Z")>> >>, <<Space>>)

\* polygonToSVGPath(coordinates, bounds), coordinates[ring][coordinate]
polygonToSVGPath(coordinates, b) ==
  Join([r \in 1..Len(coordinates) |-> RingToPath(coordinates[r], b)], <<Space>>)

\* A multiPolygonToSVGPath that joins the paths of its polygons, an empty
\* one included, instead of collecting the rings of all polygons.
multiPolygonToSVGPathByPolygon(coordinates, b) ==
  Join([k \in 1..Len(coordinates) |-> polygonToSVGPath(coordinates[k], b)],
       <<Space>>)

\* multiPolygonToSVGPath(coordinates, bounds),
\* coordinates[polygon][ring][coordinate]
multiPolygonToSVGPath(coordinates, b) ==
  LET rings == Flatten(coordinates)
  IN  Join([r \in 1..Len(rings) |-> RingToPath(rings[r], b)], <<Space>>)

\* geometryToSVGPath(geometry, bounds)
geometryToSVGPath(geometry, b) ==
  IF geometry.type = "Polygon"
  THEN polygonToSVGPath(geometry.coordinates, b)
  ELSE IF geometry.type = "MultiPolygon"
       THEN multiPolygonToSVGPath(geometry.coordinates, b)
       ELSE <<>>

-----------------------------------------------------------------------------
(* lib/map-utils.ts: hit test *)

\* The test of one edge, from vertex j to vertex i, in pointInPolygon: the
\* edge straddles the height of the point and the point is left of it.
\* x < (xj - xi) * (y - yi) / (yj - yi) + xi, cleared of the division.
EdgeCrossed(point, vi, vj) ==
  /\ (vi.y > point.y) # (vj.y > point.y)
  /\ IF vj.y - vi.y > 0
     THEN (point.x - vi.x) * (vj.y - vi.y) < (vj.x - vi.x) * (point.y - vi.y)
     ELSE (point.x - vi.x) * (vj.y - vi.y) > (vj.x - vi.x) * (point.y - vi.y)

\* the loop without its first round, the edge from the last vertex to the first
PrevIndexOpen(i, n) == IF i = 1 THEN 1 ELSE i - 1

\* the index j of the loop "for (i = 0, j = length - 1; ...; j = i++)"
PrevIndex(i, n) == IF i = 1 THEN n ELSE i - 1

RECURSIVE InsideAfter(_, _, _)
\* `inside` after the rounds 1..k of the loop
InsideAfter(point, polygon, k) ==
  IF k = 0 THEN FALSE
  ELSE LET before == InsideAfter(point, polygon, k - 1)
       IN  IF EdgeCrossed(point, polygon[k],
                          polygon[PrevIndex(k, Len(polygon))])
           THEN ~before ELSE before

\* pointInPolygon(point, polygon)
pointInPolygon(point, polygon) == InsideAfter(point, polygon, Len(polygon))

-----------------------------------------------------------------------------
(* components/map/SVGMap.tsx and ZoomControls.tsx *)

\* a fraction in lowest terms with a positive denominator
Normalize(f) ==
  LET g == Gcd(Abs(f.num), Abs(f.den))
      sgn == IF f.den < 0 THEN -1 ELSE 1
  IN  Frac(sgn * (f.num \div g), sgn * (f.den \div g))

\* the product of two fractions in lowest terms, in lowest terms
FracMul(p, q) ==
  LET g1 == Gcd(Abs(p.num), q.den)
      g2 == Gcd(Abs(q.num), p.den)
  IN  Normalize(Frac((p.num \div g1) * (q.num \div g2),
                     (p.den \div g2) * (q.den \div g1)))
FracMin(p, q) == IF FracLt(p, q) THEN p ELSE q
FracMax(p, q) == IF FracLt(q, p) THEN p ELSE q

\* The most zoom events (button presses and wheel events) of one run.
MaxZoomEvents == 7
\* The largest pan offset |x| + |y| a move may reach.
MaxPan == 1

One == Frac(1, 1)
\* ZoomControls' minZoom = 0.5 and maxZoom = 3
minZoom == Frac(1, 2)
maxZoom == Frac(3, 1)
\* the factors 1.2 of the buttons, and 1.1 and 0.9 of the wheel
ButtonFactor == Frac(6, 5)
ButtonFactorInverse == Frac(5, 6)
WheelInFactor == Frac(11, 10)
WheelOutFactor == Frac(9, 10)

Origin == [x |-> 0, y |-> 0]
\* MouseEvent.clientX and clientY: the pointer is at one of four places
Pointers == [x : 0..1, y : 0..1]
\* MouseEvent.button: 0 is the left button, 2 the right one
Buttons == {0, 2}
\* WheelEvent.deltaY
WheelDeltas == {-100, 0, 100}

\* The map that the shipped data files hold, cut to two regions: one
\* Polygon and one MultiPolygon, each with its name and its centre
\* [longitude, latitude].
RegionA ==
  [properties |-> [name |-> "A", center |-> <<121, 31>>, adcode |-> 310115],
   geometry |-> [type |-> "Polygon",
                 coordinates |-> << << <<120, 30>>, <<122, 30>>, <<121, 32>> >> >>]]
RegionB ==
  [properties |-> [name |-> "B", center |-> <<120, 29>>, adcode |-> 330102],
   geometry |-> [type |-> "MultiPolygon",
                 coordinates |-> << << << <<119, 28>>, <<121, 28>>, <<120, 30>> >> >>,
                                    << << <<118, 29>>, <<119, 29>>, <<118, 30>> >> >> >>]]
SampleMap == [type |-> "FeatureCollection", features |-> <<RegionA, RegionB>>]

\* '地图数据加载失败'
MapLoadFailed == "map data load failed"

\* '地图数据不可用'
MapUnavailable == "map data unavailable"

\* What SVGMap returns before the svg: the loading panel, else the error
\* panel with its text.
MapLoadingPanelShown == mapLoading
MapErrorPanelShown ==
  ~mapLoading /\ (mapError # NULL \/ mapData = NoValue \/ bounds = NoValue)
MapErrorPanelText == IF mapError # NULL THEN mapError ELSE MapUnavailable

\* SVGMap renders the svg element, its regions and the zoom controls.
MapRendered ==
  /\ ~mapLoading
  /\ mapError = NULL
  /\ mapData # NoValue
  /\ bounds # NoValue

\* The features SVGMap draws a path for.
RenderedFeatures ==
  IF MapRendered
  THEN {i \in 1..Len(mapData.features) :
          mapData.features[i].geometry.type \in {"Polygon", "MultiPolygon"}}
  ELSE {}

\* The load effect after loadCombinedMapData resolved with `combined`.
LoadMapDataResolves(combined) ==
  /\ mapFetch = "pending"
  /\ mapFetch' = "settled"
  /\ mapData' = combined
  /\ bounds' = calculateBounds(combined, DefaultPadding)
  /\ mapError' = NULL
  /\ mapLoading' = FALSE
  /\ UNCHANGED <<pageVars, searchVars, viewVars, geoVars,
                 loadVars, apiVars, cardVars, filterVars>>

\* The load effect after loadCombinedMapData rejected.
LoadMapDataRejects ==
  /\ mapFetch = "pending"
  /\ mapFetch' = "settled"
  /\ mapError' = MapLoadFailed
  /\ mapLoading' = FALSE
  /\ UNCHANGED <<mapData, bounds>>
  /\ UNCHANGED <<pageVars, searchVars, viewVars, geoVars,
                 loadVars, apiVars, cardVars, filterVars>>

-----------------------------------------------------------------------------
(* lib/map-utils: loadGeoData and loadCombinedMapData *)

\* The most features in one city file.
MaxCityFeatures == 1

cityNames ==
  <<"shanghai", "hangzhou", "huzhou", "jiaxing", "ningbo", "shaoxing",
    "zhoushan">>
CityType == {cityNames[i] : i \in 1..Len(cityNames)}

\* The file of a city.  The files of the six cities after shanghai have
\* the Chinese name of the city in the source ('杭州市.geoJson', ...).
cityFileMap ==
  [city \in CityType |->
     CASE city = "shanghai" -> "shanghai.geoJson"
       [] city = "hangzhou" -> "hangzhoushi.geoJson"
       [] city = "huzhou" -> "huzhoushi.geoJson"
       [] city = "jiaxing" -> "jiaxingshi.geoJson"
       [] city = "ningbo" -> "ningboshi.geoJson"
       [] city = "shaoxing" -> "shaoxingshi.geoJson"
       [] city = "zhoushan" -> "zhoushanshi.geoJson"]

DataUrl(fileName) == <<"/data/", fileName>>

\* What the server may hold under a url: a collection of up to
\* MaxCityFeatures districts, each marked with the file it is in.
FileFeature(url, n) ==
  [properties |-> [name |-> <<url[2], n>>, center |-> <<121, 31>>,
                   adcode |-> n],
   geometry |-> [type |-> "Polygon",
                 coordinates |-> << << <<120, 30>>, <<122, 30>>, <<121, 32>> >> >>]]
FileBodies(url) ==
  {[type |-> "FeatureCollection",
    features |-> [n \in 1..k |-> FileFeature(url, n)]] : k \in 0..MaxCityFeatures}

\* How a load of one file can fail: fetch rejects, the status is not OK,
\* the body is not JSON.
LoadFailures == {"network", "status", "parse"}
LoadError(url, cause) ==
  IF cause = "status"
  THEN [name |-> "Error", message |-> <<"Failed to load ", url[2]>>]
  ELSE [name |-> cause, message |-> <<cause>>]

\* loadGeoData(city) up to its await of fetch
loadGeoData(city) == [state |-> "pending", url |-> DataUrl(cityFileMap[city])]

\* cityNames.map(city => loadGeoData(city)): all seven requests are out
\* before the first response is looked at.
LoadStarted ==
  /\ cityLoads = [city \in CityType |-> loadGeoData(city)]
  /\ combinedLoad = [state |-> "pending"]

\* The data of the cities with the city that answered last in front: an
\* order of arrival, which Promise.all does not give.
CityDataArrayLastFirst(loads, last) ==
  LET others == SelectSeq(cityNames, LAMBDA city : city # last)
  IN  <<loads[last].data>> \o [i \in 1..Len(others) |-> loads[others[i]].data]

\* cityDataArray: Promise.all gives the data of the cities in the order of
\* cityNames, whichever city `last` answered last.
CityDataArray(loads, last) ==
  [i \in 1..Len(cityNames) |-> loads[cityNames[i]].data]

\* The value loadCombinedMapData returns once every load has its data.
CombinedMapData(loads, last) ==
  LET cityDataArray == CityDataArray(loads, last)
      cities == [city \in CityType |->
                   cityDataArray[CHOOSE i \in 1..Len(cityNames) :
                                   cityNames[i] = city]]
      allFeatures ==
        Flatten([i \in 1..Len(cityDataArray) |-> cityDataArray[i].features])
  IN  [cities |-> cities,
       combined |-> [type |-> "FeatureCollection", features |-> allFeatures]]

\* Promise.all over the loads after the load of `city` settled into `loads`
PromiseAll(loads, city) ==
  IF combinedLoad.state # "pending" THEN combinedLoad
  ELSE IF loads[city].state = "failed"
  THEN [state |-> "rejected", error |-> loads[city].error]
  ELSE IF \A c \in CityType : loads[c].state = "loaded"
  THEN [state |-> "resolved", value |-> CombinedMapData(loads, city)]
  ELSE combinedLoad

\* The load effect without its finally block: loading stays true when the
\* load has failed.
LoadEffectNoFinally(outcome) ==
  IF mapFetch # "pending" \/ outcome.state = "pending"
  THEN UNCHANGED mapVars
  ELSE IF outcome.state = "resolved"
  THEN /\ mapFetch' = "settled"
       /\ mapData' = outcome.value.combined
       /\ bounds' = calculateBounds(outcome.value.combined, DefaultPadding)
       /\ mapError' = NULL
       /\ mapLoading' = FALSE
  ELSE /\ mapFetch' = "settled"
       /\ mapError' = MapLoadFailed
       /\ UNCHANGED <<mapData, bounds, mapLoading>>

\* The load effect of SVGMap on the outcome of loadCombinedMapData
LoadEffect(outcome) ==
  IF mapFetch # "pending" \/ outcome.state = "pending"
  THEN UNCHANGED mapVars
  ELSE IF outcome.state = "resolved"
  THEN /\ mapFetch' = "settled"
       /\ mapData' = outcome.value.combined
       /\ bounds' = calculateBounds(outcome.value.combined, DefaultPadding)
       /\ mapError' = NULL
       /\ mapLoading' = FALSE
  ELSE /\ mapFetch' = "settled"
       /\ mapError' = MapLoadFailed
       /\ mapLoading' = FALSE
       /\ UNCHANGED <<mapData, bounds>>

\* The response to the request of one city arrives with a body, and the
\* code after the awaits runs: loadGeoData returns, Promise.all looks at
\* the seven loads, loadCombinedMapData returns or throws, and the load
\* effect of SVGMap stores the outcome.
LoadGeoDataResolves(city, body) ==
  /\ cityLoads[city].state = "pending"
  /\ LET loads == [cityLoads EXCEPT ![city] = [state |-> "loaded", data |-> body]]
         outcome == PromiseAll(loads, city)
     IN  /\ cityLoads' = loads
         /\ combinedLoad' = outcome
         /\ LoadEffect(outcome)
  /\ UNCHANGED <<pageVars, searchVars, viewVars, geoVars, apiVars, cardVars, filterVars>>

\* The request of one city fails, and the code after the awaits runs.
LoadGeoDataRejects(city, cause) ==
  /\ cityLoads[city].state = "pending"
  /\ LET loads == [cityLoads EXCEPT
                     ![city] = [state |-> "failed",
                                error |-> LoadError(cityLoads[city].url, cause)]]
         outcome == PromiseAll(loads, city)
     IN  /\ cityLoads' = loads
         /\ combinedLoad' = outcome
         /\ LoadEffect(outcome)
  /\ UNCHANGED <<pageVars, searchVars, viewVars, geoVars, apiVars, cardVars, filterVars>>

\* ZoomControls: which buttons are enabled
canZoomIn == FracLt(zoomLevel, maxZoom)
canZoomOut == FracLt(minZoom, zoomLevel)
\* Math.abs(zoomLevel - 1) < 0.01
isDefaultZoom ==
  Abs(zoomLevel.num - zoomLevel.den) < (zoomLevel.den + 99) \div 100

\* The reset button: disabled={isDefaultZoom}
ResetEnabled == ~isDefaultZoom

\* handleZoomIn without the upper limit
ZoomedInNoLimit(prev) == FracMul(prev, ButtonFactor)
\* prev => Math.min(prev * 1.2, 3)
ZoomedIn(prev) == FracMin(FracMul(prev, ButtonFactor), maxZoom)
\* prev => Math.max(prev / 1.2, 0.5)
ZoomedOut(prev) == FracMax(FracMul(prev, ButtonFactorInverse), minZoom)
\* prev => Math.max(0.5, Math.min(3, prev * delta)), delta from deltaY
Wheeled(prev, deltaY) ==
  LET delta == IF deltaY > 0 THEN WheelOutFactor ELSE WheelInFactor
  IN  FracMax(minZoom, FracMin(maxZoom, FracMul(prev, delta)))

\* a reset that leaves the pan offset alone
ZoomResetKeepsPan(zl, po) == [zoomLevel |-> One, panOffset |-> po]
\* the view after handleZoomReset
ZoomResetView(zl, po) == [zoomLevel |-> One, panOffset |-> Origin]

handleZoomIn ==
  /\ MapRendered /\ canZoomIn
  /\ zoomEvents < MaxZoomEvents
  /\ zoomEvents' = zoomEvents + 1
  /\ zoomLevel' = ZoomedIn(zoomLevel)
  /\ lastReset' = "none"
  /\ UNCHANGED <<panOffset, isDragging, dragStart, dragFrom>>
  /\ UNCHANGED <<pageVars, searchVars, mapVars, geoVars,
                 loadVars, apiVars, cardVars, filterVars>>

handleZoomOut ==
  /\ MapRendered /\ canZoomOut
  /\ zoomEvents < MaxZoomEvents
  /\ zoomEvents' = zoomEvents + 1
  /\ zoomLevel' = ZoomedOut(zoomLevel)
  /\ lastReset' = "none"
  /\ UNCHANGED <<panOffset, isDragging, dragStart, dragFrom>>
  /\ UNCHANGED <<pageVars, searchVars, mapVars, geoVars,
                 loadVars, apiVars, cardVars, filterVars>>

handleZoomReset ==
  /\ MapRendered /\ ~isDefaultZoom
  /\ zoomLevel' = ZoomResetView(zoomLevel, panOffset).zoomLevel
  /\ panOffset' = ZoomResetView(zoomLevel, panOffset).panOffset
  /\ lastReset' = IF panOffset = Origin THEN "unpanned" ELSE "panned"
  /\ UNCHANGED <<isDragging, dragStart, dragFrom, zoomEvents>>
  /\ UNCHANGED <<pageVars, searchVars, mapVars, geoVars,
                 loadVars, apiVars, cardVars, filterVars>>

handleWheel(deltaY) ==
  /\ MapRendered
  /\ zoomEvents < MaxZoomEvents
  /\ zoomEvents' = zoomEvents + 1
  /\ zoomLevel' = Wheeled(zoomLevel, deltaY)
  /\ lastReset' = "none"
  /\ UNCHANGED <<panOffset, isDragging, dragStart, dragFrom>>
  /\ UNCHANGED <<pageVars, searchVars, mapVars, geoVars,
                 loadVars, apiVars, cardVars, filterVars>>

\* the drag start of a mousedown that forgets the pan offset
DragStartIgnoringPan(client, po) == client
\* { x: e.clientX - panOffset.x, y: e.clientY - panOffset.y }
DragStartFor(client, po) == [x |-> client.x - po.x, y |-> client.y - po.y]
\* { x: e.clientX - dragStart.x, y: e.clientY - dragStart.y }
PanOffsetFor(client, ds) == [x |-> client.x - ds.x, y |-> client.y - ds.y]

\* lastReset remembers whether the last event of the view was a reset, and
\* whether the map was panned before it ("none", "panned", "unpanned").
\* dragFrom remembers where the drag in progress began: the pointer position
\* and the pan offset at its mousedown (NoValue outside a drag).
handleMouseDown(client, button) ==
  /\ MapRendered
  /\ IF button = 0
     THEN /\ isDragging' = TRUE
          /\ dragStart' = DragStartFor(client, panOffset)
          /\ dragFrom' = [at |-> client, pan |-> panOffset]
     ELSE UNCHANGED <<isDragging, dragStart, dragFrom>>
  /\ lastReset' = "none"
  /\ UNCHANGED <<zoomLevel, panOffset, zoomEvents>>
  /\ UNCHANGED <<pageVars, searchVars, mapVars, geoVars,
                 loadVars, apiVars, cardVars, filterVars>>

handleMouseMove(client) ==
  /\ MapRendered
  /\ IF isDragging
     THEN /\ Abs(PanOffsetFor(client, dragStart).x)
               + Abs(PanOffsetFor(client, dragStart).y) <= MaxPan
          /\ panOffset' = PanOffsetFor(client, dragStart)
     ELSE UNCHANGED panOffset
  /\ lastReset' = "none"
  /\ UNCHANGED <<zoomLevel, isDragging, dragStart, dragFrom, zoomEvents>>
  /\ UNCHANGED <<pageVars, searchVars, mapVars, geoVars,
                 loadVars, apiVars, cardVars, filterVars>>

\* onMouseUp and onMouseLeave
handleMouseUp ==
  /\ MapRendered
  /\ isDragging' = FALSE
  /\ dragFrom' = NoValue
  /\ lastReset' = "none"
  /\ UNCHANGED <<zoomLevel, panOffset, dragStart, zoomEvents>>
  /\ UNCHANGED <<pageVars, searchVars, mapVars, geoVars,
                 loadVars, apiVars, cardVars, filterVars>>

-----------------------------------------------------------------------------
(* lib/api/weather.ts *)

\* '无法获取天气数据，请稍后重试'
WeatherUnavailable == "weather unavailable, retry later"
\* '获取天气数据失败'
WeatherFetchFailed == "weather fetch failed"

\* What one HTTP exchange can come to: the fetch rejects, the status is not
\* OK, the body does not parse, or the body parses.
HttpFailures == {"network", "status", "parse"}

\* The forecasts the service may hold for a place: the current record and
\* the daily arrays that getWeatherData asks for (temperatures in tenths of
\* a degree).
Forecasts ==
  { [current |-> [time |-> 1, temperature_2m |-> 215, relative_humidity_2m |-> 60,
                  wind_speed_10m |-> 12, wind_direction_10m |-> 90,
                  weather_code |-> 0],
     daily |-> [time |-> <<1, 2, 3, 4>>,
                temperature_2m_max |-> <<250, 260, 240, 230>>,
                temperature_2m_min |-> <<180, 190, 170, 160>>,
                weather_code |-> <<0, 1, 61, 3>>,
                precipitation_sum |-> <<0, 0, 12, 0>>]],
    [current |-> [time |-> 1, temperature_2m |-> -5, relative_humidity_2m |-> 95,
                  wind_speed_10m |-> 30, wind_direction_10m |-> 350,
                  weather_code |-> 61],
     daily |-> [time |-> <<1, 2, 3, 4>>,
                temperature_2m_max |-> <<20, 35, 50, 40>>,
                temperature_2m_min |-> <<-30, -15, 0, 5>>,
                weather_code |-> <<61, 63, 3, 0>>,
                precipitation_sum |-> <<55, 120, 0, 0>>]] }

\* The query parameters of getWeatherData's request.
WeatherRequest(coordinates) ==
  [latitude |-> coordinates.lat, longitude |-> coordinates.lng]

\* The body of an OK response to `request`: the place it was asked for and
\* the forecast.
ForecastBody(request, forecast) ==
  [latitude |-> request.latitude, longitude |-> request.longitude,
   current |-> forecast.current, daily |-> forecast.daily]

\* An outcome of the exchange: [kind |-> "ok", body |-> b] or a failure.
HttpOk(body) == [kind |-> "ok", body |-> body]
HttpFailed(kind) == [kind |-> kind]

\* What getWeatherData would settle with if the cause of a failure showed
\* in the message of the Error: what its catch block prevents.
getWeatherDataCause(outcome) ==
  IF outcome.kind = "ok"
  THEN [ok |-> TRUE, value |-> outcome.body]
  ELSE [ok |-> FALSE, message |-> outcome.kind]

\* What WeatherAPI.getWeatherData settles with, given the exchange's outcome:
\* the parsed body, or an Error with the fixed message.
getWeatherData(outcome) ==
  IF outcome.kind = "ok"
  THEN [ok |-> TRUE, value |-> outcome.body]
  ELSE [ok |-> FALSE, message |-> WeatherUnavailable]

\* No call of WeatherAPI has been made.
ApiIdle == apiCall = [state |-> "idle"]

\* The places a caller asks the weather of.
ApiCoordinates == [lat : 28..32, lng : 118..122]

\* A body that parses and is no forecast, as the service answers a request
\* it does not accept.
ServiceRefusal == [error |-> TRUE, reason |-> "refused"]

\* What the exchange for `request` can come to.
HttpOutcomes(request) ==
  {HttpOk(ForecastBody(request, forecast)) : forecast \in Forecasts}
    \cup {HttpOk(ServiceRefusal)}
    \cup {HttpFailed(kind) : kind \in HttpFailures}

\* WeatherAPI.getWeatherData(coordinates) up to its await of fetch: one
\* request is sent.
GetWeatherDataCall(coordinates) ==
  /\ apiCall.state = "idle"
  /\ apiCall' = [state |-> "pending", fn |-> "getWeatherData",
                 coordinates |-> coordinates,
                 requests |-> <<WeatherRequest(coordinates)>>]
  /\ UNCHANGED <<pageVars, searchVars, mapVars, viewVars, geoVars, loadVars,
               cardVars, filterVars>>

\* getWeatherData from its await on, the exchange having come to `outcome`:
\* it returns or throws, and sends nothing more.
GetWeatherDataSettles(outcome) ==
  /\ apiCall.state = "pending"
  /\ apiCall.fn = "getWeatherData"
  /\ LET weather == getWeatherData(outcome)
     IN  apiCall' =
           IF weather.ok
           THEN [apiCall EXCEPT !.state = "resolved"]
                  @@ [value |-> weather.value, outcome |-> outcome]
           ELSE [apiCall EXCEPT !.state = "rejected"]
                  @@ [error |-> [name |-> "Error", message |-> weather.message],
                      outcome |-> outcome]
  /\ UNCHANGED <<pageVars, searchVars, mapVars, viewVars, geoVars, loadVars,
               cardVars, filterVars>>

-----------------------------------------------------------------------------
(* WeatherCard *)

\* No card is rendered.
CardIdle == cardProps = NoValue /\ cardView = NoValue

\* Array.prototype.slice(start, end) of a sequence, for 0 <= start <= end:
\* the entries at the 0-based places start .. end - 1 that exist.
Slice(seq, start, end) ==
  [i \in 1..MathMax(0, MathMin(end, Len(seq)) - start) |-> seq[start + i]]

\* The entry at the 0-based place i of an array
At(array, i) == array[i + 1]

\* One row of the list, reading the daily arrays at the same place as the
\* slice: the row of `index` would then show the day before.
ForecastRowSamePlace(daily, date, index) ==
  [date |-> date,
   weather_code |-> At(daily.weather_code, index),
   temperature_2m_max |-> At(daily.temperature_2m_max, index),
   temperature_2m_min |-> At(daily.temperature_2m_min, index),
   precipitation |-> At(daily.precipitation_sum, index),
   precipitationShown |-> At(daily.precipitation_sum, index) > 0]

\* One row of the list: the callback of map for (date, index)
ForecastRow(daily, date, index) ==
  [date |-> date,
   weather_code |-> At(daily.weather_code, index + 1),
   temperature_2m_max |-> At(daily.temperature_2m_max, index + 1),
   temperature_2m_min |-> At(daily.temperature_2m_min, index + 1),
   precipitation |-> At(daily.precipitation_sum, index + 1),
   precipitationShown |-> At(daily.precipitation_sum, index + 1) > 0]

\* The rows under '未来3天预报': dailyWeather.time.slice(1, 4).map(...)
ForecastRows(daily) ==
  LET dates == Slice(daily.time, 1, 4)
  IN  [r \in 1..Len(dates) |-> ForecastRow(daily, dates[r], r - 1)]

\* WeatherCard renders for its weatherData prop.
\* ['北', '东北', '东', '东南', '南', '西南', '西', '西北']
directions == <<"N", "NE", "E", "SE", "S", "SW", "W", "NW">>

\* Math.round(a / b) for integers a and b > 0: the integer nearest to the
\* quotient, a half going up.
RoundQuotient(a, b) ==
  LET twice == 2 * a + b
  IN  IF twice >= 0 THEN twice \div (2 * b) ELSE -((-twice + 2 * b - 1) \div (2 * b))

\* a % n of the language: the remainder has the sign of a.
Remainder(a, n) == IF a >= 0 THEN a % n ELSE -((-a) % n)

\* A getWindDirection that takes the compass point at or before the degree.
getWindDirectionFloor(degree) ==
  At(directions, Remainder(degree \div 45, 8))

\* getWindDirection(degree)
getWindDirection(degree) ==
  At(directions, Remainder(RoundQuotient(degree, 45), 8))

WeatherCardRenders ==
  /\ cardProps # NoValue
  /\ cardView = NoValue
  /\ cardView' = [forecast |-> ForecastRows(cardProps.daily),
                  windDirection |->
                    getWindDirection(cardProps.current.wind_direction_10m)]
  /\ UNCHANGED cardProps
  /\ UNCHANGED <<pageVars, searchVars, mapVars, viewVars, geoVars, loadVars,
                 apiVars, filterVars>>

-----------------------------------------------------------------------------
(* app/page.tsx: HomePage *)

\* { ...weather, location }
WithLocation(weather, location) ==
  [f \in DOMAIN weather \cup {"location"} |->
     IF f = "location" THEN location ELSE weather[f]]

\* A getRegionCenter that reads center as [lat, lng]: the other convention.
getRegionCenterLatFirst(feature) ==
  [lat |-> feature.properties.center[1], lng |-> feature.properties.center[2]]

\* getRegionCenter(feature)
getRegionCenter(feature) ==
  [lat |-> feature.properties.center[2], lng |-> feature.properties.center[1]]

RemoveAt(seq, i) == SubSeq(seq, 1, i - 1) \o SubSeq(seq, i + 1, Len(seq))

\* A click on the path of feature i: SVGMap.handleRegionClick passes the name
\* and [center.lng, center.lat] to the page's handleRegionClick, which runs
\* up to its await.
handleRegionClick(i) ==
  /\ i \in RenderedFeatures
  /\ Len(regionFetches) < MaxPending
  /\ LET feature == mapData.features[i]
         center == getRegionCenter(feature)
         regionName == feature.properties.name
         coordinates == <<center.lng, center.lat>>
         coords == [lat |-> coordinates[2], lng |-> coordinates[1]]
     IN  /\ selectedRegion' = regionName
         /\ loading' = TRUE
         /\ error' = NULL
         /\ regionFetches' =
              Append(regionFetches,
                     [regionName |-> regionName, coordinates |-> coordinates,
                      request |-> WeatherRequest(coords)])
  /\ lastPress' = "select"
  /\ UNCHANGED <<weatherData, searchLocation>>
  /\ UNCHANGED <<searchVars, mapVars, viewVars, geoVars,
                 loadVars, apiVars, cardVars, filterVars>>

\* handleRegionClick from its await on, for the fetch at place k of those in
\* flight, whose exchange came to `outcome`.
RegionFetchSettles(k, outcome) ==
  /\ k \in 1..Len(regionFetches)
  /\ LET call == regionFetches[k]
         weather == getWeatherData(outcome)
     IN  IF weather.ok
         THEN /\ weatherData' =
                   WithLocation(weather.value,
                                [name |-> call.regionName,
                                 lat |-> call.coordinates[2],
                                 lng |-> call.coordinates[1],
                                 latitude |-> call.coordinates[2],
                                 longitude |-> call.coordinates[1]])
              /\ UNCHANGED error
         ELSE /\ error' = weather.message
              /\ weatherData' = NoValue
  /\ loading' = FALSE
  /\ regionFetches' = RemoveAt(regionFetches, k)
  /\ UNCHANGED <<selectedRegion, searchLocation, lastPress>>
  /\ UNCHANGED <<searchVars, mapVars, viewVars, geoVars,
                 loadVars, apiVars, cardVars, filterVars>>

\* The page's handleLocationSelect(location, weatherData), SearchBox's
\* onLocationSelect.
HomePage_handleLocationSelect(location, weather) ==
  /\ searchLocation' = [name |-> location.name, latitude |-> location.latitude,
                        longitude |-> location.longitude]
  /\ selectedRegion' = NULL
  /\ weatherData' =
       WithLocation(weather,
                    [name |-> location.name, lat |-> location.latitude,
                     lng |-> location.longitude, latitude |-> location.latitude,
                     longitude |-> location.longitude])
  /\ error' = NULL
  /\ UNCHANGED <<loading, regionFetches, lastPress>>

\* The header's clear button, shown while a region or a search location is
\* selected.
handleClearSelection ==
  /\ selectedRegion # NULL \/ searchLocation # NoValue
  /\ selectedRegion' = NULL
  /\ searchLocation' = NoValue
  /\ weatherData' = NoValue
  /\ error' = NULL
  /\ lastPress' = "clear"
  /\ UNCHANGED <<loading, regionFetches>>
  /\ UNCHANGED <<searchVars, mapVars, viewVars, geoVars,
                 loadVars, apiVars, cardVars, filterVars>>

\* The retry button of the error panel.
RetryClick ==
  /\ error # NULL
  /\ IF selectedRegion # NULL \/ searchLocation # NoValue
     THEN error' = NULL /\ loading' = TRUE /\ lastPress' = "retry"
     ELSE UNCHANGED <<error, loading, lastPress>>
  /\ UNCHANGED <<selectedRegion, weatherData, searchLocation, regionFetches>>
  /\ UNCHANGED <<searchVars, mapVars, viewVars, geoVars,
                 loadVars, apiVars, cardVars, filterVars>>

\* The header's '已选择:' label: the name it shows, and whether '(搜索结果)'
\* follows it.
SelectionLabelShown == selectedRegion # NULL \/ searchLocation # NoValue
SelectionLabelName ==
  IF selectedRegion # NULL THEN selectedRegion ELSE searchLocation.name
SearchResultMarkShown == SelectionLabelShown /\ searchLocation # NoValue

\* The retry button was pressed for the selection and the user has neither
\* selected nor cleared since; the selection was cleared and the user has
\* not selected since.
Retried == lastPress = "retry"
Cleared == lastPress = "clear"

\* What the weather panel shows.
LoadingShown == loading
ErrorShown == error # NULL
WeatherCardShown ==
  /\ weatherData # NoValue
  /\ selectedRegion # NULL \/ searchLocation # NoValue
  /\ ~loading
\* WeatherCard's locationName
CardLocationName ==
  IF selectedRegion # NULL THEN selectedRegion
  ELSE IF searchLocation # NoValue THEN searchLocation.name ELSE ""

-----------------------------------------------------------------------------
(* SearchBox *)

(* A text is a sequence of pieces: words, spaces and commas.  The input's   *)
(* value, the query sent to the geocoding service and the text written back *)
(* into the input after a selection are texts.                              *)

\* The delay of the debounce timer, in ms.
DebounceMs == 300
\* The step of the clock, in ms.
TickMs == 100
\* The most timers the timer table of the model holds.
MaxTimers == 2
\* The most geocoding searches in flight at once.
MaxSearches == 2
\* .slice(0, 8)
MaxResults == 8

\* '搜索失败，请重试'
SearchFailed == "search failed, retry"

\* The values the user types into the input.
TypedValues == { <<>>, <<" ">>, <<"hang">>, <<"hang", "zhou">> }

\* Places the geocoding service knows (no admin1, no admin2: NULL).
Hangzhou ==
  [name |-> "Hangzhou", latitude |-> 30, longitude |-> 120, country |-> "China",
   admin1 |-> "Zhejiang", admin2 |-> NULL]
Hanggin ==
  [name |-> "Hanggin", latitude |-> 40, longitude |-> 108, country |-> "China",
   admin1 |-> "Inner Mongolia", admin2 |-> "Ordos"]
Hangu ==
  [name |-> "Hangu", latitude |-> 33, longitude |-> 71, country |-> "Pakistan",
   admin1 |-> NULL, admin2 |-> NULL]
Pudong ==
  [name |-> "Pudong", latitude |-> 31, longitude |-> 121, country |-> "China",
   admin1 |-> "Shanghai", admin2 |-> "Shanghai"]

\* The bodies the geocoding service may answer a search with: `results` may
\* be missing (NoValue) when nothing matches.
GeocodingBodies ==
  { [results |-> <<Hanggin, Hangu, Hangzhou, Pudong>>],
    [results |-> <<Hangu>>],
    NoValue }

\* String.prototype.trim: whether anything but spaces is left
TrimmedIsEmpty(text) == \A i \in 1..Len(text) : text[i] = " "

IsTarget(location) == location.admin1 = "Shanghai" \/ location.admin1 = "Zhejiang"
IsChina(location) == location.country = "China"
IsOtherPlace(location) == ~IsTarget(location)

\* The list with the places of Shanghai and Zhejiang left where the
\* response has them: what the list would be without the sort.
FilteredResultsUnsorted(data) ==
  LET locations == IF "results" \in DOMAIN data THEN data.results ELSE <<>>
      china == SelectSeq(locations, IsChina)
  IN  SubSeq(china, 1, MathMin(Len(china), MaxResults))

\* The list searchLocations shows: the results in China, those of Shanghai
\* and Zhejiang first (the sort is stable), cut to the first eight.
FilteredResults(data) ==
  LET locations == IF "results" \in DOMAIN data THEN data.results ELSE <<>>
      china == SelectSeq(locations, IsChina)
      sorted == SelectSeq(china, IsTarget) \o SelectSeq(china, IsOtherPlace)
  IN  SubSeq(sorted, 1, MathMin(Len(sorted), MaxResults))

\* No response body is at hand.
FilterIdle == filterData = NoValue /\ filterList = NoValue

\* searchLocations makes its list of the body `filterData`.
FilterCall ==
  /\ filterData # NoValue
  /\ filterList = NoValue
  /\ filterList' = [results |-> FilteredResults(filterData)]
  /\ UNCHANGED filterData
  /\ UNCHANGED <<pageVars, searchVars, mapVars, viewVars, geoVars, loadVars,
                 apiVars, cardVars>>

\* The forecast bodies the service may answer SearchBox's request with
\* (is_day is 0 or 1).
CurrentBodies ==
  { [current |-> [temperature_2m |-> 215, relative_humidity_2m |-> 60,
                  apparent_temperature |-> 228, is_day |-> 1,
                  precipitation |-> 0, weather_code |-> 0, cloud_cover |-> 10,
                  pressure_msl |-> 1013, wind_speed_10m |-> 12,
                  wind_direction_10m |-> 90]] }

\* Math.round of a value held in tenths
MathRound(tenths) == (tenths + 5) \div 10

\* What SearchBox.fetchWeatherData settles with, given the exchange's outcome.
fetchWeatherData(outcome) ==
  IF outcome.kind = "ok" /\ "current" \in DOMAIN outcome.body
  THEN LET current == outcome.body.current
       IN  [ok |-> TRUE,
            value |-> [temperature |-> MathRound(current.temperature_2m),
                       humidity |-> current.relative_humidity_2m,
                       windSpeed |-> current.wind_speed_10m,
                       weatherCode |-> current.weather_code,
                       pressure |-> current.pressure_msl,
                       cloudCover |-> current.cloud_cover,
                       precipitation |-> current.precipitation,
                       windDirection |-> current.wind_direction_10m,
                       apparentTemperature |-> MathRound(current.apparent_temperature),
                       isDay |-> current.is_day = 1]]
  ELSE [ok |-> FALSE]

\* `${name}${admin2 ? `, ${admin2}` : ''}${admin1 ? `, ${admin1}` : ''}`
LocationText(location) ==
  <<location.name>>
  \o (IF location.admin2 # NULL THEN <<",", " ", location.admin2>> ELSE <<>>)
  \o (IF location.admin1 # NULL THEN <<",", " ", location.admin1>> ELSE <<>>)

TimerIds == 1..MaxTimers

\* clearTimeout(id): the timer table without the timer id, if it is pending
ClearTimeout(table, id) == {t \in table : t.id # id}
\* the id setTimeout gives the next timer: one that no pending timer has
NewTimerId(table) == CHOOSE id \in TimerIds : \A t \in table : t.id # id
\* setTimeout(() => searchLocations(value), 300)
SetTimeout(table, value) ==
  table \cup {[id |-> NewTimerId(table), value |-> value, remaining |-> DebounceMs]}

\* handleInputChange without its clearTimeout
ClearedTimersKeepingOld == timers
\* if (searchTimeoutRef.current) clearTimeout(searchTimeoutRef.current)
ClearedTimers ==
  IF searchTimeoutRef # 0 THEN ClearTimeout(timers, searchTimeoutRef) ELSE timers

\* sinceInput is the time since the last change of the input, up to
\* DebounceMs; lastTyped is the value of that change, and whether the change
\* came while the timer of the change before it was still pending.
\* The input's onChange; the input is disabled while the weather loads.
handleInputChange(value) ==
  /\ mounted /\ ~isLoadingWeather
  /\ value # query
  /\ Cardinality(ClearedTimers) < MaxTimers
  /\ query' = value
  /\ timers' = SetTimeout(ClearedTimers, value)
  /\ searchTimeoutRef' = NewTimerId(ClearedTimers)
  /\ sinceInput' = 0
  /\ lastTyped' = [value |-> value, burst |-> ClearedTimers # timers]
  /\ UNCHANGED <<results, isSearching, isLoadingWeather, showResults,
                 searchError, geoFetches, weatherFetches, mounted>>
  /\ UNCHANGED <<pageVars, mapVars, viewVars, geoVars,
                 loadVars, apiVars, cardVars, filterVars>>

\* TickMs pass: every pending timer comes TickMs nearer to being due.
Tick ==
  /\ mounted
  /\ timers # {}
  /\ timers' = {[t EXCEPT !.remaining = MathMax(0, t.remaining - TickMs)] :
                  t \in timers}
  /\ sinceInput' = MathMin(DebounceMs, sinceInput + TickMs)
  /\ UNCHANGED <<query, results, isSearching, isLoadingWeather, showResults,
                 searchError, searchTimeoutRef, geoFetches, weatherFetches,
                 mounted, lastTyped>>
  /\ UNCHANGED <<pageVars, mapVars, viewVars, geoVars,
                 loadVars, apiVars, cardVars, filterVars>>

\* The searches in flight once a later call of searchLocations has started:
\* each is marked as overtaken (a mark of the model; the code keeps none).
Overtaken(fetches) ==
  [k \in 1..Len(fetches) |-> [fetches[k] EXCEPT !.overtaken = TRUE]]

\* A due timer runs its callback, searchLocations(value), up to the await.
TimerFires(id) ==
  /\ mounted
  /\ \E t \in timers :
       /\ t.id = id
       /\ t.remaining = 0
       /\ timers' = timers \ {t}
       /\ IF TrimmedIsEmpty(t.value)
          THEN /\ results' = <<>>
               /\ showResults' = FALSE
               /\ geoFetches' = Overtaken(geoFetches)
               /\ UNCHANGED <<isSearching, searchError>>
          ELSE /\ Len(geoFetches) < MaxSearches
               /\ isSearching' = TRUE
               /\ searchError' = NULL
               /\ geoFetches' = Append(Overtaken(geoFetches),
                                       [searchQuery |-> t.value,
                                        overtaken |-> FALSE])
               /\ UNCHANGED <<results, showResults>>
  /\ UNCHANGED <<query, isLoadingWeather, searchTimeoutRef, weatherFetches,
                 mounted, sinceInput, lastTyped>>
  /\ UNCHANGED <<pageVars, mapVars, viewVars, geoVars,
                 loadVars, apiVars, cardVars, filterVars>>

\* searchLocations from its await on, for the search at place k of those in
\* flight.  After the unmount its state updates have no effect.
GeoFetchSettles(k, outcome) ==
  /\ k \in 1..Len(geoFetches)
  /\ geoFetches' = RemoveAt(geoFetches, k)
  /\ IF ~mounted
     THEN UNCHANGED <<results, showResults, searchError, isSearching>>
     ELSE /\ IF outcome.kind = "ok"
             THEN /\ results' = FilteredResults(outcome.body)
                  /\ showResults' = (Len(FilteredResults(outcome.body)) > 0)
                  /\ UNCHANGED searchError
             ELSE /\ searchError' = SearchFailed
                  /\ results' = <<>>
                  /\ showResults' = FALSE
          /\ isSearching' = FALSE
  /\ UNCHANGED <<query, isLoadingWeather, searchTimeoutRef, timers,
                 weatherFetches, mounted, sinceInput, lastTyped>>
  /\ UNCHANGED <<pageVars, mapVars, viewVars, geoVars,
                 loadVars, apiVars, cardVars, filterVars>>

\* Result buttons that stay enabled while the weather loads.
ResultButtonsNeverDisabled == FALSE

\* disabled={isLoadingWeather} of the result buttons
ResultButtonsDisabled == isLoadingWeather

\* A click on the button of result r: SearchBox's handleLocationSelect up to
\* its await.  The buttons are disabled while the weather loads.
SearchBox_handleLocationSelect(r) ==
  /\ mounted /\ showResults /\ ~ResultButtonsDisabled
  /\ r \in 1..Len(results)
  /\ isLoadingWeather' = TRUE
  /\ showResults' = FALSE
  /\ query' = LocationText(results[r])
  /\ weatherFetches' = Append(weatherFetches, results[r])
  /\ UNCHANGED <<results, isSearching, searchError, searchTimeoutRef, timers,
                 geoFetches, mounted, sinceInput, lastTyped>>
  /\ lastPress' = "select"
  /\ UNCHANGED <<selectedRegion, weatherData, loading, error, searchLocation,
                 regionFetches>>
  /\ UNCHANGED <<mapVars, viewVars, geoVars, loadVars, apiVars, cardVars,
                 filterVars>>

\* SearchBox's handleLocationSelect from its await on: onLocationSelect with
\* the weather, or the error; then isLoadingWeather is false again.
SearchWeatherSettles(outcome) ==
  /\ weatherFetches # <<>>
  /\ weatherFetches' = Tail(weatherFetches)
  /\ LET location == Head(weatherFetches)
         weather == fetchWeatherData(outcome)
     IN  IF weather.ok
         THEN /\ HomePage_handleLocationSelect(location, weather.value)
              /\ UNCHANGED searchError
         ELSE /\ searchError' = IF mounted THEN WeatherFetchFailed ELSE searchError
              /\ UNCHANGED pageVars
  /\ isLoadingWeather' = IF mounted THEN FALSE ELSE isLoadingWeather
  /\ UNCHANGED <<query, results, isSearching, showResults, searchTimeoutRef,
                 timers, geoFetches, mounted, sinceInput, lastTyped>>
  /\ UNCHANGED <<mapVars, viewVars, geoVars, loadVars, apiVars, cardVars,
                 filterVars>>

\* Escape in the input, or a mousedown outside the search box.
HideResults ==
  /\ mounted /\ showResults
  /\ showResults' = FALSE
  /\ UNCHANGED <<query, results, isSearching, isLoadingWeather, searchError,
                 searchTimeoutRef, timers, geoFetches, weatherFetches, mounted,
                 sinceInput, lastTyped>>
  /\ UNCHANGED <<pageVars, mapVars, viewVars, geoVars,
                 loadVars, apiVars, cardVars, filterVars>>

\* onFocus of the input: results.length > 0 && setShowResults(true)
FocusInput ==
  /\ mounted /\ ~isLoadingWeather
  /\ Len(results) > 0 /\ ~showResults
  /\ showResults' = TRUE
  /\ UNCHANGED <<query, results, isSearching, isLoadingWeather, searchError,
                 searchTimeoutRef, timers, geoFetches, weatherFetches, mounted,
                 sinceInput, lastTyped>>
  /\ UNCHANGED <<pageVars, mapVars, viewVars, geoVars,
                 loadVars, apiVars, cardVars, filterVars>>

\* The search box unmounts: the cleanup of its timer effect runs.
Unmount ==
  /\ mounted
  /\ mounted' = FALSE
  /\ timers' = ClearedTimers
  /\ UNCHANGED <<query, results, isSearching, isLoadingWeather, showResults,
                 searchError, searchTimeoutRef, geoFetches, weatherFetches,
                 sinceInput, lastTyped>>
  /\ UNCHANGED <<pageVars, mapVars, viewVars, geoVars,
                 loadVars, apiVars, cardVars, filterVars>>

-----------------------------------------------------------------------------
(* The state after construction *)

PageInit ==
  /\ selectedRegion = NULL
  /\ weatherData = NoValue
  /\ loading = FALSE
  /\ error = NULL
  /\ searchLocation = NoValue
  /\ regionFetches = <<>>
  /\ lastPress = "none"

SearchInit ==
  /\ query = <<>>
  /\ results = <<>>
  /\ isSearching = FALSE
  /\ isLoadingWeather = FALSE
  /\ showResults = FALSE
  /\ searchError = NULL
  /\ searchTimeoutRef = 0
  /\ timers = {}
  /\ geoFetches = <<>>
  /\ weatherFetches = <<>>
  /\ mounted = TRUE
  /\ sinceInput = 0
  /\ lastTyped = [value |-> <<>>, burst |-> FALSE]

\* SVGMap mounts with loading = true and its load effect under way.
MapInit ==
  /\ mapData = NoValue
  /\ bounds = NoValue
  /\ mapLoading = TRUE
  /\ mapError = NULL
  /\ mapFetch = "pending"
  /\ LoadStarted

ViewInit ==
  /\ zoomLevel = One
  /\ panOffset = Origin
  /\ isDragging = FALSE
  /\ dragStart = Origin
  /\ zoomEvents = 0
  /\ dragFrom = NoValue
  /\ lastReset = "none"

\* No helper has been applied.
GeoIdle ==
  /\ geoBounds = NoValue
  /\ geoCoords = <<>>
  /\ geoPoint = NoValue
  /\ geoPath = <<>>
  /\ geoHit = NoValue
  /\ ApiIdle
  /\ CardIdle
  /\ FilterIdle

Init == PageInit /\ SearchInit /\ MapInit /\ ViewInit /\ GeoIdle

-----------------------------------------------------------------------------
(* The map view: SVGMap's load, zoom and drag *)

NextView ==
  \/ LoadMapDataResolves(SampleMap)
  \/ LoadMapDataRejects
  \/ handleZoomIn
  \/ handleZoomOut
  \/ handleZoomReset
  \/ \E deltaY \in WheelDeltas : handleWheel(deltaY)
  \/ \E client \in Pointers, button \in Buttons : handleMouseDown(client, button)
  \/ \E client \in Pointers : handleMouseMove(client)
  \/ handleMouseUp

SpecView == Init /\ [][NextView]_vars

-----------------------------------------------------------------------------
(* Claims about the map view *)

\* C7: from zoom level 1, after any sequence of zoom-in and zoom-out presses,
\* wheel events, resets and drag events the zoom level is within [0.5, 3],
\* the range at whose ends ZoomControls disables its buttons.
C7_ZoomWithinLimits ==
  /\ FracLe(minZoom, zoomLevel)
  /\ FracLe(zoomLevel, maxZoom)
  /\ ~canZoomIn => FracEq(zoomLevel, maxZoom)
  /\ ~canZoomOut => FracEq(zoomLevel, minZoom)

\* The upper limit has cut a zoom-in short, on a map that was dragged.
C7_Witness ==
  /\ FracEq(zoomLevel, maxZoom)
  /\ zoomEvents > 0
  /\ panOffset # Origin

\* C8: a left-button mousedown starts a drag and any other button does not;
\* while the drag lasts, a mouse move to p sets the pan offset to the offset
\* at the mousedown plus (p - the pointer position at the mousedown); the
\* drag ends with a mouseup or mouseleave and with nothing else.
C8_DragPans ==
  [][/\ \A client \in Pointers :
          /\ handleMouseDown(client, 0) =>
               /\ isDragging'
               /\ dragFrom' = [at |-> client, pan |-> panOffset]
               /\ panOffset' = panOffset
          /\ \A button \in Buttons \ {0} :
               handleMouseDown(client, button) =>
                 /\ isDragging' = isDragging
                 /\ dragStart' = dragStart
                 /\ panOffset' = panOffset
          /\ (isDragging /\ handleMouseMove(client)) =>
               /\ panOffset'.x = dragFrom.pan.x + (client.x - dragFrom.at.x)
               /\ panOffset'.y = dragFrom.pan.y + (client.y - dragFrom.at.y)
               /\ isDragging'
          /\ (~isDragging /\ handleMouseMove(client)) =>
               panOffset' = panOffset
     /\ handleMouseUp => ~isDragging'
     /\ (isDragging /\ ~isDragging') => handleMouseUp
    ]_vars

\* A second drag is under way, begun on a map already panned, and has moved it.
C8_Witness ==
  /\ isDragging
  /\ dragFrom # NoValue
  /\ dragFrom.pan # Origin
  /\ panOffset # dragFrom.pan

\* C9: after handleZoomReset the zoom level is 1 and the pan offset (0, 0),
\* whatever they were, and a second reset would change nothing.
C9_ResetRestoresDefault ==
  lastReset # "none" =>
    /\ zoomLevel = One
    /\ panOffset = Origin
    /\ ZoomResetView(zoomLevel, panOffset)
         = [zoomLevel |-> zoomLevel, panOffset |-> panOffset]

\* A reset has just acted on a map that was zoomed and panned.
C9_Witness == lastReset = "panned" /\ zoomEvents > 0

\* C24: whenever the view is not the default one (zoomLevel is 0.01 or more
\* away from 1, or panOffset is not (0, 0)), the reset button is enabled.
C24_ResetEnabledOffDefault ==
  MapRendered /\ (~isDefaultZoom \/ panOffset # Origin) => ResetEnabled

-----------------------------------------------------------------------------
(* The search box *)

NextSearch ==
  \/ \E value \in TypedValues : handleInputChange(value)
  \/ Tick
  \/ \E id \in TimerIds : TimerFires(id)
  \/ \E k \in 1..MaxSearches, body \in GeocodingBodies :
       GeoFetchSettles(k, HttpOk(body))
  \/ \E k \in 1..MaxSearches, kind \in HttpFailures :
       GeoFetchSettles(k, HttpFailed(kind))
  \/ \E r \in 1..MaxResults : SearchBox_handleLocationSelect(r)
  \/ \E body \in CurrentBodies : SearchWeatherSettles(HttpOk(body))
  \/ \E kind \in HttpFailures : SearchWeatherSettles(HttpFailed(kind))
  \/ HideResults
  \/ FocusInput
  \/ Unmount

SpecSearch == Init /\ [][NextSearch]_vars

-----------------------------------------------------------------------------
(* Claims about the search box *)

\* C10: every input change cancels the timer scheduled before it and
\* schedules one timer of 300 ms for its value, so at most one timer is ever
\* pending; a timer runs only when 300 ms have passed since the last input
\* change, for the value last typed, and leaves no timer behind; a search
\* starts only from a timer that runs; the unmount cancels a pending timer.
C10_Debounce ==
  [][/\ Cardinality(timers') <= 1
     /\ \A value \in TypedValues :
          handleInputChange(value) =>
            timers' = {[id |-> searchTimeoutRef', value |-> value,
                        remaining |-> DebounceMs]}
     /\ \A id \in TimerIds :
          TimerFires(id) =>
            /\ sinceInput >= DebounceMs
            /\ \A t \in timers : t.value = lastTyped.value
            /\ timers' = {}
            /\ Len(geoFetches') > Len(geoFetches) =>
                 geoFetches'[Len(geoFetches')].searchQuery = lastTyped.value
     /\ Len(geoFetches') > Len(geoFetches) => \E id \in TimerIds : TimerFires(id)
     /\ Unmount => timers' = {}
    ]_vars

\* The input changed while the timer of the change before was pending, and
\* the one search of the burst, for its last value, is in flight.
C10_Witness ==
  /\ mounted
  /\ lastTyped.burst
  /\ timers = {}
  /\ Len(geoFetches) = 1
  /\ geoFetches[1].searchQuery = lastTyped.value
  /\ lastTyped.value = <<"hang", "zhou">>
  /\ results = <<>> /\ searchError = NULL

\* C20: the answer to a search that a later call of searchLocations has
\* overtaken (a later query, or the emptied query) changes neither the
\* result list nor whether it is shown.
C20_LatestSearchWins ==
  [][\A k \in 1..Len(geoFetches) :
       /\ mounted
       /\ geoFetches[k].overtaken
       /\ \/ \E body \in GeocodingBodies : GeoFetchSettles(k, HttpOk(body))
          \/ \E kind \in HttpFailures : GeoFetchSettles(k, HttpFailed(kind))
       => UNCHANGED <<results, showResults>>]_vars

\* C22: when the weather request of a selected search result fails, the
\* page's selectedRegion, searchLocation, weatherData and error stay as
\* they are, the search box's error becomes '获取天气数据失败' and
\* isLoadingWeather becomes false; while isLoadingWeather is true neither
\* the input nor a result button takes an event, and at most one such
\* request is in flight.
C22_FailedSelectionLeavesPage ==
  [][/\ \A kind \in HttpFailures :
          (mounted /\ SearchWeatherSettles(HttpFailed(kind))) =>
            /\ UNCHANGED <<selectedRegion, searchLocation, weatherData, error>>
            /\ searchError' = WeatherFetchFailed
            /\ isLoadingWeather' = FALSE
     /\ isLoadingWeather =>
          /\ \A value \in TypedValues : ~handleInputChange(value)
          /\ \A r \in 1..MaxResults : ~SearchBox_handleLocationSelect(r)
     /\ Len(weatherFetches') <= 1
     /\ mounted' /\ weatherFetches' # <<>> => isLoadingWeather']_vars

\* The request of a selection failed after an earlier selection had put its
\* weather on the page.
C22_Witness ==
  /\ searchError = WeatherFetchFailed
  /\ ~isLoadingWeather
  /\ weatherFetches = <<>>
  /\ searchLocation # NoValue
  /\ weatherData # NoValue
  /\ query # <<>>
  /\ query[1] # searchLocation.name

-----------------------------------------------------------------------------
(* The page: region clicks, search selections and their weather fetches *)

\* What the exchanges of the page's fetches may come to.
RegionOutcomes(request) ==
  {HttpOk(ForecastBody(request, f)) : f \in Forecasts}
    \cup {HttpFailed(kind) : kind \in HttpFailures}

\* The search box after "hang" was typed, its debounce timer ran and its
\* search was answered: the state that SpecSearch reaches by
\* handleInputChange, three Ticks, TimerFires and GeoFetchSettles.
SearchAnswered ==
  /\ query = <<"hang">>
  /\ lastTyped = [value |-> <<"hang">>, burst |-> FALSE]
  /\ results = <<Hangzhou, Pudong, Hanggin>>
  /\ showResults = TRUE
  /\ isSearching = FALSE
  /\ isLoadingWeather = FALSE
  /\ searchError = NULL
  /\ searchTimeoutRef = 1
  /\ timers = {}
  /\ geoFetches = <<>>
  /\ weatherFetches = <<>>
  /\ mounted = TRUE
  /\ sinceInput = DebounceMs

InitPage == PageInit /\ SearchAnswered /\ MapInit /\ ViewInit /\ GeoIdle

NextPage ==
  \/ LoadMapDataResolves(SampleMap)
  \/ LoadMapDataRejects
  \/ \E i \in 1..Len(SampleMap.features) : handleRegionClick(i)
  \/ \E k \in 1..Len(regionFetches) :
       \E outcome \in RegionOutcomes(regionFetches[k].request) :
         RegionFetchSettles(k, outcome)
  \/ handleClearSelection
  \/ RetryClick
  \/ \E r \in 1..MaxResults : SearchBox_handleLocationSelect(r)
  \/ \E body \in CurrentBodies : SearchWeatherSettles(HttpOk(body))
  \/ \E kind \in HttpFailures : SearchWeatherSettles(HttpFailed(kind))
  \/ HideResults
  \/ FocusInput

SpecPage == InitPage /\ [][NextPage]_vars

-----------------------------------------------------------------------------
(* Claims about the page *)

\* C1: whenever the page shows the weather card for a map selection
\* (selectedRegion and weatherData not null, loading false), the weather
\* shown is the one fetched for the selected region.
C1_CardShowsSelectedRegion ==
  (selectedRegion # NULL /\ weatherData # NoValue /\ ~loading)
    => weatherData.location.name = selectedRegion

\* C2: every weatherData that reaches WeatherCard, from a region click or
\* from a search selection, carries the `current` and `daily` records that
\* WeatherCard reads.
C2_CardDataHasCurrentAndDaily ==
  WeatherCardShown => {"current", "daily"} \subseteq DOMAIN weatherData


\* C13: at most one of selectedRegion and searchLocation is set, and the
\* mark '(搜索结果)' is shown only beside the name of the search result.
C13_SelectionsExclusive ==
  /\ ~(selectedRegion # NULL /\ searchLocation # NoValue)
  /\ SearchResultMarkShown => SelectionLabelName = searchLocation.name

\* C14: every weather request of a region click that is in flight asks for
\* the clicked feature's center, properties.center = [lng, lat]: its
\* latitude is the second entry of center and its longitude the first, and
\* the location the page will store has them the same way round.
C14_RequestKeepsCoordinateOrder ==
  \A k \in 1..Len(regionFetches) :
    \E i \in RenderedFeatures :
      LET feature == mapData.features[i]
          call == regionFetches[k]
      IN  /\ call.regionName = feature.properties.name
          /\ call.request.latitude = feature.properties.center[2]
          /\ call.request.longitude = feature.properties.center[1]
          /\ call.coordinates = feature.properties.center

\* Region B, whose center is [120, 29], was clicked: latitude 29 and
\* longitude 120 are asked for.
C14_Witness ==
  \E k \in 1..Len(regionFetches) :
    /\ regionFetches[k].regionName = RegionB.properties.name
    /\ regionFetches[k].request = [latitude |-> 29, longitude |-> 120]

\* The page with the scheduling that the runtime gives to weather requests:
\* a request in flight is answered or fails, for a region click and for a
\* search selection.  What the user does is not scheduled, and nothing is
\* assumed of the map files.
SpecPageFair ==
  /\ InitPage
  /\ [][NextPage]_vars
  /\ WF_vars(\E k \in 1..Len(regionFetches) :
               \E outcome \in RegionOutcomes(regionFetches[k].request) :
                 RegionFetchSettles(k, outcome))
  /\ WF_vars(\/ \E body \in CurrentBodies : SearchWeatherSettles(HttpOk(body))
             \/ \E kind \in HttpFailures : SearchWeatherSettles(HttpFailed(kind)))

\* C16: after the retry button was pressed for a selection, loading is
\* true, and later it is false with the weather card or the error panel
\* shown, unless the user has made another selection or cleared it before.
C16_RetryFetchesAgain ==
  /\ [][RetryClick /\ Retried' => loading']_vars
  /\ Retried ~> (~Retried \/ (~loading /\ (WeatherCardShown \/ ErrorShown)))

\* C17: while a weather request of a region click is in flight, loading is
\* true: the spinner is shown and the weather card is not.
C17_LoadingWhileFetching ==
  regionFetches # <<>> => loading /\ LoadingShown /\ ~WeatherCardShown

\* C18: error and weatherData are never both set, and the error panel and
\* the weather card are never shown together.
C18_ErrorOrWeatherNotBoth ==
  /\ ~(error # NULL /\ weatherData # NoValue)
  /\ ~(ErrorShown /\ WeatherCardShown)

\* C19: from a press of '清除选择' until the user selects again, neither the
\* weather card nor the error panel is shown, whatever requests settle in
\* the meantime.
C19_NothingShownAfterClear ==
  Cleared => ~WeatherCardShown /\ ~ErrorShown

-----------------------------------------------------------------------------
(* The map's load and render: calculateBounds and the path builders *)

\* The most steps of the coordinate grid from its corner [120, 30].
MaxStep == 1

\* GeoJSON positions [lng, lat] of the grid, and the vertex lists of the
\* inputs: those of no vertex to three vertices.
Positions == (120..(120 + MaxStep)) \X (30..(30 + MaxStep))
VertexLists == UNION {[1..n -> Positions] : n \in 0..3}

Feature(name, type, coordinates) ==
  [properties |-> [name |-> name, center |-> <<120, 30>>, adcode |-> 330000],
   geometry |-> [type |-> type, coordinates |-> coordinates]]

\* the first half of a vertex list (the longer one) and the second half
FrontHalf(vs) == SubSeq(vs, 1, (Len(vs) + 1) \div 2)
BackHalf(vs) == SubSeq(vs, (Len(vs) + 1) \div 2 + 1, Len(vs))

\* The feature collections loadCombinedMapData may resolve with, for the
\* vertices vs: one Polygon; one MultiPolygon; a Polygon and a MultiPolygon
\* that share the vertices; a MultiPolygon of a polygon with two rings and a
\* polygon with one; a Polygon beside a feature that is neither.
MapLayouts(vs) ==
  { <<Feature("A", "Polygon", <<vs>>)>>,
    <<Feature("A", "MultiPolygon", << <<vs>> >>)>>,
    <<Feature("A", "Polygon", <<FrontHalf(vs)>>),
      Feature("B", "MultiPolygon", << <<BackHalf(vs)>> >>)>>,
    <<Feature("A", "MultiPolygon", << <<FrontHalf(vs), BackHalf(vs)>>, <<vs>> >>)>>,
    <<Feature("A", "LineString", << <<100, 10>>, <<140, 50>> >>),
      Feature("B", "Polygon", <<vs>>)>> }

MapInputs ==
  {[type |-> "FeatureCollection", features |-> features] :
     features \in UNION {MapLayouts(vs) : vs \in VertexLists}}

\* SVGMap's render of the svg element: the d attribute of the path of every
\* feature it draws.
RenderRegions ==
  /\ MapRendered
  /\ geoPath = <<>>
  /\ geoPath' = [i \in RenderedFeatures |->
                   geometryToSVGPath(mapData.features[i].geometry, bounds)]
  /\ UNCHANGED <<geoBounds, geoCoords, geoPoint, geoHit>>
  /\ UNCHANGED <<pageVars, searchVars, mapVars, viewVars,
                 loadVars, apiVars, cardVars, filterVars>>

NextMap ==
  \/ /\ mapFetch = "pending"
     /\ \E combined \in MapInputs : LoadMapDataResolves(combined)
  \/ LoadMapDataRejects
  \/ RenderRegions

SpecMap == Init /\ [][NextMap]_vars

-----------------------------------------------------------------------------
(* Claims about the bounds and the paths *)

\* the vertices [lng, lat] of a Polygon or MultiPolygon geometry
VerticesOf(geometry) ==
  LET rings == IF geometry.type = "Polygon"
               THEN {geometry.coordinates[r] : r \in DOMAIN geometry.coordinates}
               ELSE UNION {{geometry.coordinates[q][r] :
                              r \in DOMAIN geometry.coordinates[q]} :
                             q \in DOMAIN geometry.coordinates}
  IN  UNION {{ring[v] : v \in DOMAIN ring} : ring \in rings}

\* the vertices of the features SVGMap draws
RenderedVertices ==
  UNION {VerticesOf(mapData.features[i].geometry) : i \in RenderedFeatures}

Least(S) == CHOOSE n \in S : \A m \in S : n <= m
Greatest(S) == CHOOSE n \in S : \A m \in S : n >= m

IsWord(token) == token # Space
WordsOf(path) == SelectSeq(path, IsWord)

\* the place <<polygon, ring>> of every ring of a geometry (a Polygon is
\* its one polygon), the ring at a place, and the order of the places
RingPlaces(geometry) ==
  IF geometry.type = "Polygon"
  THEN {<<1, r>> : r \in DOMAIN geometry.coordinates}
  ELSE UNION {{<<q, r>> : r \in DOMAIN geometry.coordinates[q]} :
                q \in DOMAIN geometry.coordinates}
RingAt(geometry, place) ==
  IF geometry.type = "Polygon"
  THEN geometry.coordinates[place[2]]
  ELSE geometry.coordinates[place[1]][place[2]]
NotAfter(a, b) == a[1] < b[1] \/ (a[1] = b[1] /\ a[2] <= b[2])

\* the token prints the number f
Shows(token, f) ==
  IF f.den = 0
  THEN token = Word(IF f.num = 0 THEN "NaN"
                    ELSE IF f.num > 0 THEN "Infinity" ELSE "-Infinity")
  ELSE token[1] = "#" /\ token[3] # 0 /\ token[2] * f.den = f.num * token[3]

\* the path is made of one subpath for each ring of the geometry, in the
\* order of the rings: an M command for the first vertex, an L command for
\* every later one, each with the projection of its vertex, and a Z
PathWalksRings(path, geometry, b) ==
  LET words == WordsOf(path)
      zs == {i \in DOMAIN words : words[i] = Word("Z")}
      places == RingPlaces(geometry)
  IN  /\ \A i \in DOMAIN path : (path[i] = Space) <=> (i % 2 = 0)
      /\ path # <<>> => path[Len(path)] = Word("Z")
      /\ Cardinality(zs) = Cardinality(places)
      /\ \A place \in places :
           LET ring == RingAt(geometry, place)
               rank == Cardinality({o \in places : NotAfter(o, place)})
               end == CHOOSE i \in zs : Cardinality({j \in zs : j <= i}) = rank
               start == end - 3 * Len(ring)
           IN  /\ start >= 1
               /\ start > 1 => words[start - 1] = Word("Z")
               /\ \A v \in DOMAIN ring :
                    LET at == start + 3 * (v - 1)
                        p == projectCoordinate([lat |-> ring[v][2],
                                                lng |-> ring[v][1]], b)
                    IN  /\ words[at] = Word(IF v = 1 THEN "M" ELSE "L")
                        /\ Shows(words[at + 1], p.x)
                        /\ Shows(words[at + 2], p.y)

\* C5: the path of every feature SVGMap draws has exactly one subpath for
\* each ring of its geometry, in input order (polygons in order, rings in
\* order within a polygon); a subpath is 'M x y' for the ring's first
\* vertex, 'L x y' for each later vertex in order, and a final 'Z', with
\* (x, y) the projection of the vertex.
C5_PathWalksEveryRing ==
  \A i \in DOMAIN geoPath :
    PathWalksRings(geoPath[i], mapData.features[i].geometry, bounds)

\* A MultiPolygon of two polygons, the first with two rings, with a ring of
\* three vertices that do not lie on one line, is drawn.
C5_Witness ==
  \E i \in DOMAIN geoPath :
    LET geometry == mapData.features[i].geometry
    IN  /\ geometry.type = "MultiPolygon"
        /\ Len(geometry.coordinates) = 2
        /\ Len(geometry.coordinates[1]) = 2
        /\ Len(geometry.coordinates[2][1]) = 3
        /\ Cardinality({v[1] : v \in VerticesOf(geometry)}) = 2
        /\ Cardinality({v[2] : v \in VerticesOf(geometry)}) = 2
        /\ Cardinality(VerticesOf(geometry)) = 3

-----------------------------------------------------------------------------
(* projectCoordinate on its own *)

\* The greatest bound and coordinate given to projectCoordinate, in degrees.
MaxEdge == 2

\* The bounds, in Scale-ths: every half degree from 0 to MaxEdge, also with
\* no extent and with the greater bound below the lesser; the box 800 by 600
\* of calculateBounds and a box of one pixel.
EdgeValues == {(Scale \div 2) * k : k \in 0..(2 * MaxEdge)}
BoundsInputs ==
  [minLat : EdgeValues, maxLat : EdgeValues,
   minLng : EdgeValues, maxLng : EdgeValues,
   width : {SvgWidth, 1}, height : {SvgHeight}]
CoordInputs == [lat : 0..MaxEdge, lng : 0..MaxEdge]

InitProject ==
  /\ PageInit /\ SearchInit /\ MapInit /\ ViewInit /\ ApiIdle /\ CardIdle
  /\ FilterIdle
  /\ geoBounds \in BoundsInputs
  /\ geoCoords \in CoordInputs
  /\ geoPoint = NoValue
  /\ geoPath = <<>>
  /\ geoHit = NoValue

\* A call projectCoordinate(geoCoords, geoBounds)
ProjectCoordinateCall ==
  /\ geoPoint = NoValue
  /\ geoPoint' = projectCoordinate(geoCoords, geoBounds)
  /\ UNCHANGED <<geoBounds, geoCoords, geoPath, geoHit>>
  /\ UNCHANGED <<pageVars, searchVars, mapVars, viewVars,
                 loadVars, apiVars, cardVars, filterVars>>

NextProject == ProjectCoordinateCall

SpecProject == InitProject /\ [][NextProject]_vars

\* C4: for bounds with maxLng > minLng and maxLat > minLat,
\* x = (lng - minLng) / (maxLng - minLng) * width and
\* y = height - (lat - minLat) / (maxLat - minLat) * height; (minLng, maxLat)
\* is projected to (0, 0) and (maxLng, minLat) to (width, height); x does
\* not decrease with lng and y does not increase with lat; a coordinate
\* inside the bounds is projected into [0, width] x [0, height].
C4_ProjectionIsLinearAndFlipped ==
  LET b == geoBounds
      lng == geoCoords.lng * Scale
      lat == geoCoords.lat * Scale
      x == geoPoint.x
      y == geoPoint.y
  IN  (geoPoint # NoValue /\ b.maxLng > b.minLng /\ b.maxLat > b.minLat) =>
        /\ x.den > 0 /\ y.den > 0
        /\ x.num * (b.maxLng - b.minLng) = (lng - b.minLng) * b.width * x.den
        /\ (b.height * y.den - y.num) * (b.maxLat - b.minLat)
             = (lat - b.minLat) * b.height * y.den
        /\ (lng = b.minLng /\ lat = b.maxLat) => (x.num = 0 /\ y.num = 0)
        /\ (lng = b.maxLng /\ lat = b.minLat) =>
             (x.num = b.width * x.den /\ y.num = b.height * y.den)
        /\ \A other \in CoordInputs :
             LET q == projectCoordinate(other, b)
             IN  /\ other.lng >= geoCoords.lng => FracLe(x, q.x)
                 /\ other.lat >= geoCoords.lat => FracLe(q.y, y)
        /\ (b.minLng <= lng /\ lng <= b.maxLng /\ b.minLat <= lat /\ lat <= b.maxLat)
             => /\ 0 <= x.num /\ x.num <= b.width * x.den
                /\ 0 <= y.num /\ y.num <= b.height * y.den

\* The coordinate at the least longitude and the greatest latitude of bounds
\* that do not begin at the origin has been projected to the top left
\* corner.
C4_Witness ==
  /\ geoPoint # NoValue
  /\ geoBounds.maxLng > geoBounds.minLng /\ geoBounds.minLng > 0
  /\ geoBounds.maxLat > geoBounds.minLat /\ geoBounds.minLat > 0
  /\ geoCoords.lng * Scale = geoBounds.minLng
  /\ geoCoords.lat * Scale = geoBounds.maxLat
  /\ geoPoint.x.num = 0 /\ geoPoint.y.num = 0

-----------------------------------------------------------------------------
(* pointInPolygon on its own *)

\* The most vertices of a polygon given to pointInPolygon.
MaxSides == 4

\* The vertices are the points with coordinates 0, 2 and 4; the points
\* tested are those with coordinates 0 to 4.
HitVertices == [x : {0, 2, 4}, y : {0, 2, 4}]
HitPoints == [x : 0..4, y : 0..4]

\* twice the signed area of the triangle a, b, c: positive when c is left of
\* the line from a to b
Orient(a, b, c) == (b.x - a.x) * (c.y - a.y) - (b.y - a.y) * (c.x - a.x)
Sign(n) == IF n > 0 THEN 1 ELSE IF n < 0 THEN -1 ELSE 0

\* p is a point of the segment from a to b
OnSegment(a, b, p) ==
  /\ Orient(a, b, p) = 0
  /\ MathMin(a.x, b.x) <= p.x /\ p.x <= MathMax(a.x, b.x)
  /\ MathMin(a.y, b.y) <= p.y /\ p.y <= MathMax(a.y, b.y)

\* the segments a-b and c-d have a point in common
SegmentsMeet(a, b, c, d) ==
  \/ /\ Sign(Orient(a, b, c)) * Sign(Orient(a, b, d)) < 0
     /\ Sign(Orient(c, d, a)) * Sign(Orient(c, d, b)) < 0
  \/ OnSegment(a, b, c) \/ OnSegment(a, b, d)
  \/ OnSegment(c, d, a) \/ OnSegment(c, d, b)

\* the vertex after vertex i, around the polygon
Succ(i, n) == (i % n) + 1

\* A simple polygon: edge i runs from vertex i to the vertex after it; two
\* neighbouring edges share their common vertex only, two others nothing.
IsSimple(polygon) ==
  LET n == Len(polygon)
  IN  /\ n >= 3
      /\ \A i, j \in 1..n :
           i < j =>
             LET a == polygon[i]
                 b == polygon[Succ(i, n)]
                 c == polygon[j]
                 d == polygon[Succ(j, n)]
             IN  IF j = Succ(i, n)
                 THEN ~OnSegment(a, b, d) /\ ~OnSegment(c, d, a)
                 ELSE IF i = Succ(j, n)
                      THEN ~OnSegment(c, d, b) /\ ~OnSegment(a, b, c)
                      ELSE ~SegmentsMeet(a, b, c, d)

\* the point is on an edge of the polygon
OnBoundary(point, polygon) ==
  \E i \in DOMAIN polygon :
    OnSegment(polygon[i], polygon[Succ(i, Len(polygon))], point)

\* A point far from point p in a direction that no line through two points
\* of the grid has: the segment from p to it passes through no vertex.
FarFrom(p) == [x |-> p.x + 1000, y |-> p.y + 7]

RECURSIVE WindingAfter(_, _, _)
\* The edges 1..k that cross the segment from p to FarFrom(p), those that
\* cross it from right to left less those that cross it from left to right.
WindingAfter(p, polygon, k) ==
  IF k = 0 THEN 0
  ELSE LET a == polygon[k]
           b == polygon[Succ(k, Len(polygon))]
           far == FarFrom(p)
           crosses == /\ Sign(Orient(p, far, a)) * Sign(Orient(p, far, b)) < 0
                      /\ Sign(Orient(a, b, p)) * Sign(Orient(a, b, far)) < 0
       IN  WindingAfter(p, polygon, k - 1)
             + (IF crosses THEN Sign(Orient(p, far, b)) ELSE 0)

\* the polygon winds around the point
WindsAround(point, polygon) == WindingAfter(point, polygon, Len(polygon)) # 0

\* The vertex lists given to pointInPolygon: those of fewer than three
\* vertices, and the simple polygons of three vertices to MaxSides.
HitPolygons ==
  {polygon \in UNION {[1..n -> HitVertices] : n \in 0..MaxSides} :
     Len(polygon) < 3 \/ IsSimple(polygon)}

InitHit ==
  /\ PageInit /\ SearchInit /\ MapInit /\ ViewInit /\ ApiIdle /\ CardIdle
  /\ FilterIdle
  /\ geoBounds = NoValue
  /\ geoCoords \in HitPolygons
  /\ geoPoint \in HitPoints
  /\ geoPath = <<>>
  /\ geoHit = NoValue

\* A call pointInPolygon(geoPoint, geoCoords)
PointInPolygonCall ==
  /\ geoHit = NoValue
  /\ geoHit' = [inside |-> pointInPolygon(geoPoint, geoCoords)]
  /\ UNCHANGED <<geoBounds, geoCoords, geoPoint, geoPath>>
  /\ UNCHANGED <<pageVars, searchVars, mapVars, viewVars,
                 loadVars, apiVars, cardVars, filterVars>>

NextHit == PointInPolygonCall

SpecHit == InitHit /\ [][NextHit]_vars

-----------------------------------------------------------------------------
(* The map files load: the seven responses arrive in any order *)

NextLoad ==
  \/ \E city \in CityType :
       /\ cityLoads[city].state = "pending"
       /\ \E body \in FileBodies(cityLoads[city].url) :
            LoadGeoDataResolves(city, body)
  \/ \E city \in CityType, cause \in LoadFailures :
       LoadGeoDataRejects(city, cause)

SpecLoad == Init /\ [][NextLoad]_vars

\* The features of the loaded cities, city after city in the order of
\* cityNames, built from the front.
RECURSIVE FeaturesUpTo(_)
FeaturesUpTo(n) ==
  IF n = 0 THEN <<>>
  ELSE FeaturesUpTo(n - 1) \o cityLoads[cityNames[n]].data.features

\* C11: the seven requests are out together; when loadCombinedMapData has
\* resolved, every load has its data, combined.features is the features of
\* shanghai, hangzhou, huzhou, jiaxing, ningbo, shaoxing, zhoushan in that
\* order and cities[c] is the data of the request for the file of c; when
\* a load has failed the call has rejected, with the error of a failed
\* load and without map data; and the call is pending only while no load
\* has failed and some load is out.
C11_CombinedInCityOrder ==
  /\ \A city \in CityType :
       cityLoads[city].state = "loaded" =>
         \A i \in 1..Len(cityLoads[city].data.features) :
           cityLoads[city].data.features[i].properties.name[1]
             = cityFileMap[city]
  /\ combinedLoad.state = "resolved" =>
       /\ \A city \in CityType : cityLoads[city].state = "loaded"
       /\ combinedLoad.value.combined.features = FeaturesUpTo(Len(cityNames))
       /\ combinedLoad.value.combined.type = "FeatureCollection"
       /\ \A city \in CityType :
            combinedLoad.value.cities[city] = cityLoads[city].data
       /\ mapData = combinedLoad.value.combined
  /\ (\E city \in CityType : cityLoads[city].state = "failed") =>
       /\ combinedLoad.state = "rejected"
       /\ DOMAIN combinedLoad = {"state", "error"}
       /\ \E city \in CityType :
            /\ cityLoads[city].state = "failed"
            /\ cityLoads[city].error = combinedLoad.error
       /\ mapData = NoValue
  /\ combinedLoad.state = "pending" <=>
       /\ \A city \in CityType : cityLoads[city].state # "failed"
       /\ \E city \in CityType : cityLoads[city].state = "pending"

\* The call resolved with features of the first and of the last city.
C11_Witness ==
  /\ combinedLoad.state = "resolved"
  /\ Len(cityLoads["shanghai"].data.features) > 0
  /\ Len(cityLoads["zhoushan"].data.features) > 0
  /\ Len(combinedLoad.value.combined.features) > 1

\* C23: loading is true exactly until loadCombinedMapData has settled;
\* after that either mapData and bounds are both set, error is null and
\* the map is rendered, or error is '地图数据加载失败', mapData and bounds are
\* both null and the error panel is rendered.
C23_MapLoadHasOneOutcome ==
  /\ mapLoading <=> combinedLoad.state = "pending"
  /\ mapLoading => MapLoadingPanelShown /\ mapData = NoValue /\ bounds = NoValue
  /\ combinedLoad.state = "resolved" =>
       /\ mapData # NoValue /\ bounds # NoValue /\ mapError = NULL
       /\ MapRendered /\ ~MapErrorPanelShown
  /\ combinedLoad.state = "rejected" =>
       /\ mapError = MapLoadFailed /\ mapData = NoValue /\ bounds = NoValue
       /\ MapErrorPanelShown /\ MapErrorPanelText = MapLoadFailed
       /\ ~MapRendered

\* The load failed after two of the seven files had been loaded.
C23_Witness ==
  /\ combinedLoad.state = "rejected"
  /\ Cardinality({city \in CityType : cityLoads[city].state = "loaded"}) = 2
  /\ mapError = MapLoadFailed
  /\ ~mapLoading

-----------------------------------------------------------------------------
(* WeatherAPI.getWeatherData is called for a place *)

NextWeather ==
  \/ \E coordinates \in ApiCoordinates : GetWeatherDataCall(coordinates)
  \/ /\ apiCall.state = "pending"
     /\ \E outcome \in HttpOutcomes(apiCall.requests[1]) :
          GetWeatherDataSettles(outcome)

SpecWeather == Init /\ [][NextWeather]_vars

\* C12: a settled call of getWeatherData has resolved with the parsed body
\* as it came, exactly when the status was OK and the body parsed, and has
\* otherwise rejected with an Error of the one fixed message, whatever the
\* cause (fetch rejected, status not OK, body not JSON); one request was
\* sent in all.
C12_ResolvesBodyOrFixedError ==
  /\ apiCall.state = "resolved" =>
       /\ apiCall.outcome.kind = "ok"
       /\ apiCall.value = apiCall.outcome.body
  /\ apiCall.state = "rejected" =>
       /\ apiCall.outcome.kind \in HttpFailures
       /\ apiCall.error = [name |-> "Error", message |-> WeatherUnavailable]
  /\ apiCall.state # "idle" =>
       /\ Len(apiCall.requests) = 1
       /\ apiCall.requests[1].latitude = apiCall.coordinates.lat
       /\ apiCall.requests[1].longitude = apiCall.coordinates.lng

\* A call rejected because the body did not parse.
C12_Witness ==
  /\ apiCall.state = "rejected"
  /\ apiCall.outcome.kind = "parse"
  /\ apiCall.error.message = WeatherUnavailable

-----------------------------------------------------------------------------
(* WeatherCard renders a forecast of any number of days *)

\* The most days in the daily arrays.
MaxDays == 5

\* Daily arrays of n days, each day with values of its own; a day is dry or
\* wet.
DailyOf(n, wet) ==
  [time |-> [i \in 1..n |-> i],
   weather_code |-> [i \in 1..n |-> IF i \in wet THEN 60 + i ELSE i],
   temperature_2m_max |-> [i \in 1..n |-> 200 + 10 * i],
   temperature_2m_min |-> [i \in 1..n |-> 100 + 10 * i],
   precipitation_sum |-> [i \in 1..n |-> IF i \in wet THEN 10 + i ELSE 0]]

CardInputs ==
  {[current |-> [time |-> 1, temperature_2m |-> 215,
                 relative_humidity_2m |-> 60, wind_speed_10m |-> 12,
                 wind_direction_10m |-> 90, weather_code |-> 0],
    daily |-> DailyOf(n, wet)] : n \in 0..MaxDays, wet \in SUBSET (1..MaxDays)}

InitCard ==
  /\ PageInit /\ SearchInit /\ MapInit /\ ViewInit /\ ApiIdle /\ FilterIdle
  /\ geoBounds = NoValue
  /\ geoCoords = <<>>
  /\ geoPoint = NoValue
  /\ geoPath = <<>>
  /\ geoHit = NoValue
  /\ cardProps \in CardInputs
  /\ cardView = NoValue

NextCard == WeatherCardRenders

SpecCard == InitCard /\ [][NextCard]_vars

\* C15: for daily arrays of n days the card lists min(3, max(0, n - 1))
\* rows, for the days at the places 1, 2, 3 of the arrays in that order
\* (place 0, today, is left out), and a row has the date, weather code,
\* highest and lowest temperature and precipitation of its own day.
C15_ForecastRowsAreNextThreeDays ==
  cardView # NoValue =>
    LET daily == cardProps.daily
        n == Len(daily.time)
        rows == cardView.forecast
    IN  /\ Len(rows) = MathMin(3, MathMax(0, n - 1))
        /\ \A r \in 1..Len(rows) :
             /\ rows[r].date = At(daily.time, r)
             /\ rows[r].weather_code = At(daily.weather_code, r)
             /\ rows[r].temperature_2m_max = At(daily.temperature_2m_max, r)
             /\ rows[r].temperature_2m_min = At(daily.temperature_2m_min, r)
             /\ rows[r].precipitation = At(daily.precipitation_sum, r)

\* A card of five days, the second of them wet, shows three rows.
C15_Witness ==
  /\ cardView # NoValue
  /\ Len(cardProps.daily.time) = 5
  /\ Len(cardView.forecast) = 3
  /\ cardView.forecast[1].precipitationShown
  /\ ~cardView.forecast[2].precipitationShown

-----------------------------------------------------------------------------
(* searchLocations makes its list of a geocoding response *)

\* The request asks for count=10 places.
GeocodingCount == 10

\* The place at position i of a response, of one of three kinds: in
\* Shanghai or Zhejiang (by turns along the response), elsewhere in China,
\* or abroad.  Its id is its position.
PlaceKinds == {"target", "china", "abroad"}
PlaceOf(i, kind) ==
  [id |-> i,
   name |-> <<"place", i>>,
   country |-> IF kind = "abroad" THEN "Pakistan" ELSE "China",
   admin1 |-> IF kind = "target"
              THEN (IF i % 2 = 1 THEN "Shanghai" ELSE "Zhejiang")
              ELSE IF kind = "china" THEN "Inner Mongolia" ELSE NULL]

FilterInputs ==
  {[results |-> [i \in DOMAIN kinds |-> PlaceOf(i, kinds[i])]] :
     kinds \in UNION {[1..n -> PlaceKinds] : n \in 0..GeocodingCount}}
    \cup {[generationtime_ms |-> 1]}

InitFilter ==
  /\ PageInit /\ SearchInit /\ MapInit /\ ViewInit /\ ApiIdle /\ CardIdle
  /\ geoBounds = NoValue
  /\ geoCoords = <<>>
  /\ geoPoint = NoValue
  /\ geoPath = <<>>
  /\ geoHit = NoValue
  /\ filterData \in FilterInputs
  /\ filterList = NoValue

NextFilter == FilterCall

SpecFilter == InitFilter /\ [][NextFilter]_vars

\* C21: the list holds places of the response whose country is 'China'
\* only; every place of Shanghai or Zhejiang comes before every other
\* place; within each of the two groups the places are in the order of the
\* response; the list has at most 8 places, and a place in China is left
\* out only when the list is full and the place comes after all those of
\* the list in that ordering.
C21_ListIsFilteredAndPrioritised ==
  filterList # NoValue =>
    LET locations == IF "results" \in DOMAIN filterData
                     THEN filterData.results ELSE <<>>
        list == filterList.results
        Before(a, b) ==
          \/ IsTarget(a) /\ ~IsTarget(b)
          \/ IsTarget(a) = IsTarget(b) /\ a.id < b.id
    IN  /\ Len(list) <= MaxResults
        /\ \A i \in 1..Len(list) :
             /\ list[i].country = "China"
             /\ list[i].id \in 1..Len(locations)
             /\ list[i] = locations[list[i].id]
        /\ \A i, j \in 1..Len(list) : i < j => Before(list[i], list[j])
        /\ \A p \in 1..Len(locations) :
             (locations[p].country = "China"
                /\ \A i \in 1..Len(list) : list[i] # locations[p])
               => /\ Len(list) = MaxResults
                  /\ \A i \in 1..Len(list) : Before(list[i], locations[p])

\* A response of ten places in China, the first of them not in Shanghai or
\* Zhejiang and the last in Zhejiang: the list has eight places, the last
\* of the response among them and the first not.
C21_Witness ==
  /\ filterList # NoValue
  /\ "results" \in DOMAIN filterData
  /\ Len(filterData.results) = GeocodingCount
  /\ \A p \in 1..GeocodingCount : filterData.results[p].country = "China"
  /\ ~IsTarget(filterData.results[1])
  /\ filterData.results[GeocodingCount].admin1 = "Zhejiang"
  /\ Len(filterList.results) = MaxResults
  /\ \E i \in 1..MaxResults : filterList.results[i].id = GeocodingCount
  /\ \A i \in 1..MaxResults : filterList.results[i].id # 1

-----------------------------------------------------------------------------
(* geometryToSVGPath on a MultiPolygon and on each of its polygons *)

\* The most polygons in a MultiPolygon.
MaxPolygons == 2

PathCorners == {<<1, 1>>, <<2, 0>>}
PathRings ==
  {<<>>} \cup {<<c>> : c \in PathCorners}
    \cup {<<c, d>> : c, d \in PathCorners}
PathPolygons ==
  {<<>>} \cup {<<r>> : r \in PathRings} \cup {<<r, q>> : r, q \in PathRings}
PathInputs == UNION {[1..k -> PathPolygons] : k \in 0..MaxPolygons}

\* Bounds around the corners, and bounds without extent in longitude.
PathBounds ==
  {[minLat |-> -2, maxLat |-> 12, minLng |-> 9, maxLng |-> 21,
    width |-> SvgWidth, height |-> SvgHeight],
   [minLat |-> 0, maxLat |-> 10, minLng |-> 10, maxLng |-> 10,
    width |-> SvgWidth, height |-> SvgHeight]}

InitPath ==
  /\ PageInit /\ SearchInit /\ MapInit /\ ViewInit /\ ApiIdle /\ CardIdle
  /\ FilterIdle
  /\ geoBounds \in PathBounds
  /\ geoCoords \in PathInputs
  /\ geoPoint = NoValue
  /\ geoPath = <<>>
  /\ geoHit = NoValue

\* geometryToSVGPath for the MultiPolygon geoCoords, and then for each of
\* its polygons as a Polygon: the paths, in that order.
GeometryToSVGPathCalls ==
  /\ geoPath = <<>>
  /\ geoPath' =
       <<geometryToSVGPath([type |-> "MultiPolygon", coordinates |-> geoCoords],
                           geoBounds)>>
       \o [k \in 1..Len(geoCoords) |->
             geometryToSVGPath([type |-> "Polygon", coordinates |-> geoCoords[k]],
                               geoBounds)]
  /\ UNCHANGED <<geoBounds, geoCoords, geoPoint, geoHit>>
  /\ UNCHANGED <<pageVars, searchVars, mapVars, viewVars,
                 loadVars, apiVars, cardVars, filterVars>>

NextPath == GeometryToSVGPathCalls

SpecPath == InitPath /\ [][NextPath]_vars

\* C25: the path of a MultiPolygon of one polygon is the path of that
\* polygon as a Polygon, and the path of a MultiPolygon [P1, ..., Pk] is
\* the paths of those Pi that have a ring, as Polygons, joined by single
\* spaces.
C25_MultiPolygonIsJoinedPolygons ==
  geoPath # <<>> =>
    LET multi == Head(geoPath)
        polygons == Tail(geoPath)
        places == [k \in 1..Len(geoCoords) |-> k]
        withRing == SelectSeq(places, LAMBDA k : geoCoords[k] # <<>>)
    IN  /\ Len(polygons) = Len(geoCoords)
        /\ Len(geoCoords) = 1 => multi = polygons[1]
        /\ multi = Join([j \in 1..Len(withRing) |-> polygons[withRing[j]]],
                        <<Space>>)

\* A MultiPolygon of two polygons, the first of two rings and the second of
\* one ring with two corners: its path is the two Polygon paths with one
\* space between them.
C25_Witness ==
  /\ geoPath # <<>>
  /\ Len(geoCoords) = 2
  /\ Len(geoCoords[1]) = 2
  /\ Len(geoCoords[2]) = 1
  /\ Len(geoCoords[2][1]) = 2
  /\ Head(geoPath) = geoPath[2] \o <<Space>> \o geoPath[3]
  /\ geoPath[3] # <<>>

-----------------------------------------------------------------------------
(* WeatherAPI.getBatchWeatherData is called for a list of places *)

\* The most places in one batch.
MaxLocations == 2

BatchCoordinates == {[lat |-> 30, lng |-> 120], [lat |-> 31, lng |-> 121]}
BatchInputs == UNION {[1..n -> BatchCoordinates] : n \in 0..MaxLocations}

\* The values of a Promise.all in the order calls settled in, `settled`
\* being the places of the calls in that order.
PromiseAllValuesAsSettled(calls, settled) ==
  [j \in 1..Len(settled) |-> calls[settled[j]].value]

\* The values Promise.all resolves with: those of the promises, in the
\* order of the promises.
PromiseAllValues(calls, settled) ==
  [i \in 1..Len(calls) |-> calls[i].value]

\* getBatchWeatherData(locations) up to its await: getWeatherData has run
\* for every place, in order, up to its own await of fetch, and
\* Promise.all of nothing is resolved.
GetBatchWeatherDataCall(locations) ==
  /\ apiCall.state = "idle"
  /\ apiCall' =
       [state |-> IF locations = <<>> THEN "resolved" ELSE "pending",
        fn |-> "getBatchWeatherData",
        locations |-> locations,
        requests |-> [i \in 1..Len(locations) |-> WeatherRequest(locations[i])],
        calls |-> [i \in 1..Len(locations) |-> [state |-> "pending"]],
        settled |-> <<>>]
       @@ (IF locations = <<>> THEN [value |-> <<>>] ELSE <<>>)
  /\ UNCHANGED <<pageVars, searchVars, mapVars, viewVars, geoVars, loadVars,
               cardVars, filterVars>>

\* The getWeatherData call for the i-th place settles, its exchange having
\* come to `outcome`, and getBatchWeatherData, if still awaiting, goes on
\* when Promise.all settles with it: rejected by the first call to fail,
\* resolved when the last call has resolved. The Error of a call is an
\* object of its own (`of`).
BatchCallSettles(i, outcome) ==
  /\ apiCall.state # "idle"
  /\ apiCall.fn = "getBatchWeatherData"
  /\ i \in DOMAIN apiCall.calls
  /\ apiCall.calls[i].state = "pending"
  /\ LET weather == getWeatherData(outcome)
         call == IF weather.ok
                 THEN [state |-> "resolved", value |-> weather.value]
                 ELSE [state |-> "rejected",
                       error |-> [name |-> "Error",
                                  message |-> weather.message, of |-> i]]
         calls == [apiCall.calls EXCEPT ![i] = call]
         settled == Append(apiCall.settled, i)
         after == [apiCall EXCEPT !.calls = calls, !.settled = settled]
     IN  apiCall' =
           IF apiCall.state # "pending"
           THEN after
           ELSE IF ~weather.ok
           THEN [after EXCEPT !.state = "rejected"] @@ [error |-> call.error]
           ELSE IF \A k \in DOMAIN calls : calls[k].state = "resolved"
           THEN [after EXCEPT !.state = "resolved"]
                  @@ [value |-> PromiseAllValues(calls, settled)]
           ELSE after
  /\ UNCHANGED <<pageVars, searchVars, mapVars, viewVars, geoVars, loadVars,
               cardVars, filterVars>>

NextBatch ==
  \/ \E locations \in BatchInputs : GetBatchWeatherDataCall(locations)
  \/ /\ apiCall.state # "idle"
     /\ \E i \in DOMAIN apiCall.requests :
          \E outcome \in HttpOutcomes(apiCall.requests[i]) :
            BatchCallSettles(i, outcome)

SpecBatch == Init /\ [][NextBatch]_vars

\* The places of the calls that have failed, in the order they failed in.
BatchFailed ==
  SelectSeq(apiCall.settled, LAMBDA k : apiCall.calls[k].state = "rejected")

\* C26: getBatchWeatherData sends one request per place at once, in the
\* order of the places; whatever order the calls complete in, it resolves
\* only when every call has resolved, with as many values as places, the
\* i-th being what the call for the i-th place resolved with; and once a
\* call has failed it is rejected with the Error of the first call that
\* failed, and has no value.
C26_BatchInOrderOrFirstError ==
  apiCall.state # "idle" =>
    /\ Len(apiCall.requests) = Len(apiCall.locations)
    /\ \A i \in DOMAIN apiCall.locations :
         apiCall.requests[i] = WeatherRequest(apiCall.locations[i])
    /\ apiCall.state = "pending" <=>
         /\ BatchFailed = <<>>
         /\ Len(apiCall.settled) < Len(apiCall.locations)
    /\ apiCall.state = "resolved" <=>
         /\ BatchFailed = <<>>
         /\ Len(apiCall.settled) = Len(apiCall.locations)
    /\ apiCall.state = "resolved" =>
         /\ Len(apiCall.value) = Len(apiCall.locations)
         /\ \A i \in DOMAIN apiCall.locations :
              apiCall.value[i] = apiCall.calls[i].value
    /\ apiCall.state = "rejected" =>
         /\ apiCall.error = apiCall.calls[Head(BatchFailed)].error
         /\ apiCall.error.of = Head(BatchFailed)
         /\ apiCall.error.message = WeatherUnavailable
         /\ "value" \notin DOMAIN apiCall

\* A batch for two different places has resolved, the call for the second
\* place having completed first.
C26_Witness ==
  /\ apiCall.state = "resolved"
  /\ apiCall.settled = <<2, 1>>
  /\ apiCall.locations[1] # apiCall.locations[2]
  /\ \A i \in 1..2 :
       /\ "latitude" \in DOMAIN apiCall.value[i]
       /\ apiCall.value[i].latitude = apiCall.locations[i].lat

-----------------------------------------------------------------------------
(* WeatherAPI.getWeatherByCity is called with a name *)

\* The table of getWeatherByCity, an object literal: the names are '上海',
\* '杭州', '宁波', '温州', '嘉兴', '湖州', '绍兴', '金华', '衢州', '舟山',
\* '台州', '丽水'; degrees in ten-thousandths.
cityCoordinates ==
  [Shanghai |-> [lat |-> 312304, lng |-> 1214737],
   Hangzhou |-> [lat |-> 302741, lng |-> 1201551],
   Ningbo   |-> [lat |-> 298683, lng |-> 1215440],
   Wenzhou  |-> [lat |-> 280000, lng |-> 1206700],
   Jiaxing  |-> [lat |-> 307527, lng |-> 1207550],
   Huzhou   |-> [lat |-> 308703, lng |-> 1200873],
   Shaoxing |-> [lat |-> 300023, lng |-> 1205810],
   Jinhua   |-> [lat |-> 291028, lng |-> 1196498],
   Quzhou   |-> [lat |-> 289700, lng |-> 1188700],
   Zhoushan |-> [lat |-> 300360, lng |-> 1222070],
   Taizhou  |-> [lat |-> 286129, lng |-> 1214200],
   Lishui   |-> [lat |-> 284517, lng |-> 1199220]]

\* Names every object made by an object literal answers to, through
\* Object.prototype: each gives a function or an object, never undefined.
ObjectPrototypeKeys ==
  {"constructor", "toString", "valueOf", "hasOwnProperty", "__proto__"}

\* object[key] for an object literal: its own property, else the one it
\* inherits, else undefined.
PropertyOf(object, key) ==
  IF key \in DOMAIN object THEN object[key]
  ELSE IF key \in ObjectPrototypeKeys THEN [inherited |-> key]
  ELSE NoValue

\* !value
Falsy(value) == value = NoValue

\* '未找到城市 ${cityName} 的坐标信息'
CityNotFound(cityName) == <<"no coordinates for city ", cityName, " found">>

\* What lat.toString() throws when lat is undefined.
TypeErrorUndefined ==
  [name |-> "TypeError",
   message |-> <<"Cannot read properties of undefined (reading 'toString')">>]

\* The names getWeatherByCity is called with: those of the table, a city
\* that is not in it, the empty name, and two names of Object.prototype.
CityNameInputs == DOMAIN cityCoordinates \cup {"Nanjing", "", "constructor", "valueOf"}

\* The most calls of getWeatherByCity in a row.
MaxCalls == 2

CallsMade == IF "nth" \in DOMAIN apiCall THEN apiCall.nth ELSE 0

\* getWeatherByCity(cityName) up to the await of fetch in getWeatherData,
\* or to the throw before it: for a name without a table entry the Error
\* naming it; for a value without lat, the TypeError of lat.toString(),
\* which getWeatherData evaluates before its try block.
GetWeatherByCityCall(cityName) ==
  /\ apiCall.state \in {"idle", "resolved", "rejected"}
  /\ CallsMade < MaxCalls
  /\ LET coordinates == PropertyOf(cityCoordinates, cityName)
         call == [fn |-> "getWeatherByCity", cityName |-> cityName,
                  nth |-> CallsMade + 1]
     IN  apiCall' =
           IF Falsy(coordinates)
           THEN call @@ [state |-> "rejected", requests |-> <<>>,
                         error |-> [name |-> "Error",
                                    message |-> CityNotFound(cityName)]]
           ELSE IF "lat" \notin DOMAIN coordinates
           THEN call @@ [state |-> "rejected", requests |-> <<>>,
                         error |-> TypeErrorUndefined]
           ELSE call @@ [state |-> "pending", coordinates |-> coordinates,
                         requests |-> <<WeatherRequest(coordinates)>>]
  /\ UNCHANGED <<pageVars, searchVars, mapVars, viewVars, geoVars, loadVars,
               cardVars, filterVars>>

\* getWeatherByCity from the await on: it settles as its getWeatherData
\* call does.
GetWeatherByCitySettles(outcome) ==
  /\ apiCall.state = "pending"
  /\ apiCall.fn = "getWeatherByCity"
  /\ LET weather == getWeatherData(outcome)
     IN  apiCall' =
           IF weather.ok
           THEN [apiCall EXCEPT !.state = "resolved"]
                  @@ [value |-> weather.value, outcome |-> outcome]
           ELSE [apiCall EXCEPT !.state = "rejected"]
                  @@ [error |-> [name |-> "Error", message |-> <<weather.message>>],
                      outcome |-> outcome]
  /\ UNCHANGED <<pageVars, searchVars, mapVars, viewVars, geoVars, loadVars,
               cardVars, filterVars>>

NextCity ==
  \/ \E cityName \in CityNameInputs : GetWeatherByCityCall(cityName)
  \/ /\ apiCall.state = "pending"
     /\ \E outcome \in HttpOutcomes(apiCall.requests[1]) :
          GetWeatherByCitySettles(outcome)

SpecCity == Init /\ [][NextCity]_vars

\* C27: a call of getWeatherByCity with a name of the table has sent one
\* request, for the latitude and longitude the table holds for the name;
\* a call with any other name has sent none and is rejected with an Error
\* whose message holds the name.
C27_PresetOrErrorNamingCity ==
  apiCall.state # "idle" =>
    /\ apiCall.cityName \in DOMAIN cityCoordinates =>
         /\ Len(apiCall.requests) = 1
         /\ apiCall.requests[1].latitude = cityCoordinates[apiCall.cityName].lat
         /\ apiCall.requests[1].longitude = cityCoordinates[apiCall.cityName].lng
    /\ apiCall.cityName \notin DOMAIN cityCoordinates =>
         /\ apiCall.requests = <<>>
         /\ apiCall.state = "rejected"
         /\ \E k \in DOMAIN apiCall.error.message :
              apiCall.error.message[k] = apiCall.cityName

-----------------------------------------------------------------------------
(* WeatherCard renders the wind direction of any degree *)

\* The largest degree of wind direction.
MaxDegree == 360

WindInputs ==
  {[current |-> [time |-> 1, temperature_2m |-> 215,
                 relative_humidity_2m |-> 60, wind_speed_10m |-> 12,
                 wind_direction_10m |-> degree, weather_code |-> 0],
    daily |-> DailyOf(4, {})] : degree \in 0..MaxDegree}

InitWind ==
  /\ PageInit /\ SearchInit /\ MapInit /\ ViewInit /\ ApiIdle /\ FilterIdle
  /\ geoBounds = NoValue
  /\ geoCoords = <<>>
  /\ geoPoint = NoValue
  /\ geoPath = <<>>
  /\ geoHit = NoValue
  /\ cardProps \in WindInputs
  /\ cardView = NoValue

NextWind == WeatherCardRenders

SpecWind == InitWind /\ [][NextWind]_vars

\* The degrees between two directions of the compass, the short way round.
CompassDistance(a, b) ==
  LET apart == (IF a >= b THEN a - b ELSE b - a) % 360
  IN  IF apart <= 180 THEN apart ELSE 360 - apart

\* C28: for every whole degree of 0..360 the wind direction shown is one
\* of the eight names, that of the compass point (a multiple of 45
\* degrees) nearest to the degree, and 360 degrees show what 0 degrees
\* show.
C28_WindDirectionIsNearestPoint ==
  cardView # NoValue =>
    LET degree == cardProps.current.wind_direction_10m
    IN  /\ \E j \in 0..7 :
             /\ cardView.windDirection = directions[j + 1]
             /\ \A k \in 0..7 :
                  CompassDistance(degree, 45 * j) <= CompassDistance(degree, 45 * k)
        /\ degree = 360 => cardView.windDirection = getWindDirection(0)

\* 338 degrees, nearer to 360 than to 315, are shown as north.
C28_Witness ==
  /\ cardView # NoValue
  /\ cardProps.current.wind_direction_10m = 338
  /\ cardView.windDirection = directions[1]

====
